---- MODULE Spec2Model ----
(***************************************************************************)
(* Legal document assistant: the retrieval-augmented generation pipeline. *)
(*                                                                         *)
(* SpecGen     the retry wrapper safe_generate around the external LLM     *)
(*             completion call (project_report.md, section 5.1.3).         *)
(* SpecSession the session registry DOCS and the ingest / ask / summarize  *)
(*             / evict operations dispatched concurrently over it.         *)
(* SpecHistory the conversation history on its own: append, recentTurns.   *)
(***************************************************************************)
EXTENDS Integers, Sequences, FiniteSets, TLC

\* ------------------------------------------------------------------ bounds
\* The jitter random.random() lies in [0,1); it is discretised into
\* JitterScale steps, so one time-unit is JitterScale ticks.
JitterScale == 2
\* range(5): the attempt ceiling of safe_generate.
MaxAttempts == 5

\* ---------------------------------------------------------------- helpers
RECURSIVE Pow2(_)
Pow2(n) == IF n = 0 THEN 1 ELSE 2 * Pow2(n - 1)

\* s is a prefix of t
IsPrefix(s, t) == Len(s) <= Len(t) /\ SubSeq(t, 1, Len(s)) = s

\* --------------------------------------------------- the external service
\* What model.generate_content can answer.
Texts == {"a1", "a2"}
\* google.api_core ResourceExhausted: the quota / rate-limit signal (429).
RateLimit == "ResourceExhausted"
\* Failures that are not rate limits: malformed request, authentication
\* failure, network failure.
HardErrors == {"InvalidArgument", "Unauthenticated", "ServiceUnavailable"}
Prompts == {"p1", "p2"}

NoResult == [kind |-> "pending"]
\* The three ways a Python call ends.
Returned(t) == [kind |-> "return", text |-> t]
ReturnedNone == [kind |-> "return_none"]
Raised(e) == [kind |-> "raise", exc |-> e]

VARIABLES
    gpc,        \* position of the safe_generate call: idle / try / done
    prompt,     \* its argument
    attempt,    \* the loop variable of `for attempt in range(5)`
    outcomes,   \* what each generate_content call did, in order
    slept,      \* the durations passed to time.sleep, in ticks, in order
    gresult     \* how the call ended

genVars == <<gpc, prompt, attempt, outcomes, slept, gresult>>

VARIABLES
    DOCS,       \* the keys of the global dictionary DOCS: the registered handles
    store,      \* the session objects the keys refer to: pages, index, chat
    issued,     \* how many handles uuid4 has produced
    evicted,    \* the handles removed from DOCS
    clock,      \* the timestamp source of the turns
    req,        \* the requests being served, by slot
    appends     \* every append made to a history, in order: [sess, req, turn]

sessVars == <<DOCS, store, issued, evicted, clock, req, appends>>

VARIABLES
    hist,       \* a ConversationHistory
    asked,      \* the limit of the latest recentTurns call, -1 before any
    recent,     \* what that call returned
    snap,       \* the history that call read
    lastOp,     \* the latest operations on hist
    built,      \* the latest prompt assembled over hist
    psnap       \* the history that prompt was assembled from

histVars == <<hist, asked, recent, snap, lastOp, built, psnap>>

VARIABLES
    spages,     \* the pages of the document rag_qa is called on
    sindex,     \* its index
    sarg,       \* the arguments [q, k] of the latest index.search
    slabels,    \* the labels I[0] that search returned
    pinned,     \* the first search made on this index: [q, k, labels]
    rout        \* how the latest rag_qa call got to its prompt

srchVars == <<spages, sindex, sarg, slabels, pinned, rout>>

VARIABLES
    jpc,        \* position of the evaluate call: idle / grading / repairing / done
    jargs,      \* its arguments: question and answer
    jcalls,     \* the grader completions it received, in order
    jresult     \* what it returned

judgeVars == <<jpc, jargs, jcalls, jresult>>
VARIABLES
    cpc,        \* position of the chunk call: idle / done
    cpages,     \* its argument: the page texts, each a sequence of characters
    csize,      \* its argument targetSize
    coverlap,   \* its argument overlap
    cchunks     \* what it returned

chunkVars == <<cpc, cpages, csize, coverlap, cchunks>>
VARIABLES
    edata,      \* data.evaluation of the /ask response handled last
    eshown      \* what evalBox shows for it

evalVars == <<edata, eshown>>
VARIABLES
    ares,       \* the failed response handed to handleApiError, and the fallback
    aout        \* what handleApiError returned for it

errVars == <<ares, aout>>
VARIABLES
    localStorage,   \* legalai_token and legalai_user in localStorage
    sessionStorage, \* the same two keys in sessionStorage
    href,           \* window.location.href: "/" (dashboard) or "/login"
    page,           \* the dashboard page: authToken, currentUser, whether initApp ran
    meInFlight,     \* fetches of /me not yet answered
    docsInFlight,   \* fetches of /documents not yet answered
    loggedOut       \* logout has run and nobody signed in since

authVars == <<localStorage, sessionStorage, href, page, meInFlight, docsInFlight, loggedOut>>
VARIABLES
    docId,              \* initApp's docId
    currentDocFullText, \* initApp's currentDocFullText
    chatBox,            \* the children of chatBox
    evalBox,            \* what evalBox shows
    inflight,           \* the requests sent and not yet answered
    serverDocs,         \* the documents the server holds for the user
    uploads,            \* how many documents were uploaded, earlier sessions included
    ops,                \* how many operations the user started
    active,             \* the dashboard is shown (nobody was logged out)
    jsonBox,            \* jsonBox.textContent
    summaryBox,         \* what summaryBox shows
    suggestBox,         \* what suggestBox shows
    uploadStatus,       \* uploadStatus.textContent
    lastToast,          \* the message of the toast shown last
    selectedFile,       \* initApp's selectedFile is set
    uploadBtn,          \* uploadBtn.style.display
    uploadProgress,     \* uploadProgress.style.display
    summarizeBtn,       \* the class "loading" of summarizeBtn, or ""
    sidebar,            \* the classes mobile-open of sidebar and active of sidebarOverlay
    loads               \* the loadDocument calls of the current run of them

dashVars ==
    <<docId, currentDocFullText, chatBox, evalBox, inflight, serverDocs, uploads, ops, active,
      jsonBox, summaryBox, suggestBox, uploadStatus, lastToast, selectedFile, uploadBtn,
      uploadProgress, summarizeBtn, sidebar, loads>>
VARIABLES
    forgotPasswordView,      \* the forgot-password view is displayed
    forgotStep1Form,         \* its step-1 form (email) is displayed
    forgotStep2Form,         \* its step-2 form (answer, new password) is displayed
    fields,                  \* the values of forgotEmail, forgotAnswer, newPassword
    questionRequests,        \* /auth/question requests not yet answered
    resetRequests,           \* /auth/reset-password requests not yet answered
    securityQuestionDisplay, \* whose security question is displayed
    questioned,              \* the emails whose /auth/question request succeeded
    lastOutcome              \* how the /auth/question response handled last ended

resetVars == <<forgotPasswordView, forgotStep1Form, forgotStep2Form, fields, questionRequests, resetRequests, securityQuestionDisplay, questioned, lastOutcome>>
VARIABLES
    rbox,               \* the children of chatBox in the renderHistory runs
    rhistory,           \* the history renderHistory was called with last
    rdone               \* renderHistory was the last thing done to rbox

renderVars == <<rbox, rhistory, rdone>>
vars == <<genVars, sessVars, histVars, srchVars, judgeVars, chunkVars, evalVars, errVars, authVars, dashVars, resetVars, renderVars>>

\* What the actions of one part leave alone.
notGen == <<sessVars, histVars, srchVars, judgeVars, chunkVars, evalVars, errVars, authVars, dashVars, resetVars, renderVars>>
notSess == <<genVars, histVars, srchVars, judgeVars, chunkVars, evalVars, errVars, authVars, dashVars, resetVars, renderVars>>
notHist == <<genVars, sessVars, srchVars, judgeVars, chunkVars, evalVars, errVars, authVars, dashVars, resetVars, renderVars>>
notSrch == <<genVars, sessVars, histVars, judgeVars, chunkVars, evalVars, errVars, authVars, dashVars, resetVars, renderVars>>
notJudge == <<genVars, sessVars, histVars, srchVars, chunkVars, evalVars, errVars, authVars, dashVars, resetVars, renderVars>>
notChunk == <<genVars, sessVars, histVars, srchVars, judgeVars, evalVars, errVars, authVars, dashVars, resetVars, renderVars>>
notEval == <<genVars, sessVars, histVars, srchVars, judgeVars, chunkVars, errVars, authVars, dashVars, resetVars, renderVars>>
notErr == <<genVars, sessVars, histVars, srchVars, judgeVars, chunkVars, evalVars, authVars, dashVars, resetVars, renderVars>>
notAuth == <<genVars, sessVars, histVars, srchVars, judgeVars, chunkVars, evalVars, errVars, dashVars, resetVars, renderVars>>
notDash == <<genVars, sessVars, histVars, srchVars, judgeVars, chunkVars, evalVars, errVars, authVars, resetVars, renderVars>>
notReset == <<genVars, sessVars, histVars, srchVars, judgeVars, chunkVars, evalVars, errVars, authVars, dashVars, renderVars>>
notRender == <<genVars, sessVars, histVars, srchVars, judgeVars, chunkVars, evalVars, errVars, authVars, dashVars, resetVars>>

\* ------------------------------------------------------------ safe_generate
\* A linear wait, 2 * attempt, in place of the exponential one.
BackoffNoExp(i, j) == 2 * i * JitterScale + j

\* time.sleep((2 ** attempt) + random.random()), jitter j / JitterScale
Backoff(i, j) == Pow2(i) * JitterScale + j

\* A handler that catches every exception.
CatchesAll(e) == TRUE

\* `except ResourceExhausted:` is the only handler
Retryable(e) == e = RateLimit

\* The loop test of `for attempt in range(5)`.
LoopAgain(a) == a < MaxAttempts

\* safe_generate(prompt) is entered: the loop starts at attempt 0.
Invoke ==
    /\ gpc \in {"idle", "done"}
    /\ \E p \in Prompts : prompt' = p
    /\ attempt' = 0
    /\ outcomes' = <<>>
    /\ slept' = <<>>
    /\ gresult' = NoResult
    /\ gpc' = "try"
    /\ UNCHANGED notGen

\* `return model.generate_content(prompt)`: the call answers.
AttemptReturns ==
    /\ gpc = "try"
    /\ \E t \in Texts : gresult' = Returned(t)
    /\ outcomes' = Append(outcomes, "ok")
    /\ gpc' = "done"
    /\ UNCHANGED <<prompt, attempt, slept>>
    /\ UNCHANGED notGen

\* The call raises e. A caught e is followed by the sleep and by the next
\* iteration; when range(5) is used up the function body ends, which in
\* Python returns None. An e that is not caught leaves the function.
AttemptRaises ==
    /\ gpc = "try"
    /\ \E e \in HardErrors \cup {RateLimit}, j \in 0 .. (JitterScale - 1) :
        /\ outcomes' = Append(outcomes, e)
        /\ IF Retryable(e)
           THEN /\ slept' = Append(slept, Backoff(attempt, j))
                /\ attempt' = attempt + 1
                /\ IF LoopAgain(attempt + 1)
                   THEN gpc' = "try" /\ gresult' = gresult
                   ELSE gpc' = "done" /\ gresult' = ReturnedNone
           ELSE /\ gresult' = Raised(e)
                /\ gpc' = "done"
                /\ UNCHANGED <<slept, attempt>>
    /\ UNCHANGED prompt
    /\ UNCHANGED notGen

GenNext == Invoke \/ AttemptReturns \/ AttemptRaises

\* ---------------------------------------------------------------- sessions
\* Request slots of the request-handling layer; a slot serves one request.
MaxReq == 3
\* Handles that ingest may issue.
MaxSessions == 2
\* The prompt carries the most recent HistoryTurns turns.
HistoryTurns == 2
\* index.search(q_emb, k=3)
TopK == 3

Requests == 1 .. MaxReq
\* One question text: what varies between asks is the session, the
\* evaluate flag and the answer.
Questions == {"q1"}
BlankPage == " "
EmptyPage == ""
\* The page texts extract_text_from_pdf_bytes can hand over.
Documents == {<<EmptyPage, BlankPage>>, <<"t1">>, <<"t2", "t1">>}

\* embedder.encode: a text's vector (one dimension is enough to order rows)
Embed(t) ==
    CASE t = "t1" -> 1
      [] t = "t2" -> 4
      [] t = "q1" -> 2
      [] t = "q2" -> 5
      [] OTHER -> 0

ScoreNames == {"helpfulness", "completeness", "relevance"}

\* The null evaluation: scores absent, reasoning empty.
NullEvaluation == [null |-> TRUE, reasoning |-> ""]

\* A grader completion that parses as one record of scores.
Record(scores) == [kind |-> "record", scores |-> scores]

\* The Evaluation a record of three scores stands for.
EvaluationOf(resp) ==
    [helpfulness |-> resp.scores.helpfulness, completeness |-> resp.scores.completeness,
     relevance |-> resp.scores.relevance, reasoning |-> "because", null |-> FALSE]

\* What evaluate hands to an ask (see SpecJudge).
Evaluations ==
    {EvaluationOf(Record([helpfulness |-> 5, completeness |-> 4, relevance |-> 5])),
     NullEvaluation}

NoPrompt == [history |-> <<>>, context |-> <<>>, question |-> "none"]

FreeRequest ==
    [op |-> "none", pc |-> "free", sess |-> 0, question |-> "none", evaluate |-> FALSE,
     abandoned |-> "no", pages |-> <<>>, context |-> <<>>, prompt |-> NoPrompt,
     answer |-> "none", judged |-> "none", evaluation |-> NullEvaluation,
     error |-> "none", steps |-> <<>>]


\* ------------------------------------------------------- retrieval, prompt
\* Squared Euclidean distance of IndexFlatL2.
L2(a, b) == (a - b) * (a - b)

\* The row of `rows` nearest to qv; the lower row wins a tie.
Nearest(index, qv, rows) ==
    CHOOSE i \in rows : \A j \in rows :
        \/ L2(index[i + 1], qv) < L2(index[j + 1], qv)
        \/ L2(index[i + 1], qv) = L2(index[j + 1], qv) /\ i <= j

RECURSIVE Ranked(_, _, _)
Ranked(index, qv, rows) ==
    IF rows = {} THEN <<>>
    ELSE LET i == Nearest(index, qv, rows)
         IN <<i>> \o Ranked(index, qv, rows \ {i})

\* index.search(q_emb, k): the k row labels I[0], nearest first, 0-based;
\* FAISS fills the labels it cannot supply with -1.
Search(index, qv, k) ==
    LET ranked == Ranked(index, qv, 0 .. (Len(index) - 1))
    IN [n \in 1 .. k |-> IF n <= Len(ranked) THEN ranked[n] ELSE -1]

\* pages[i] of a Python list: a negative i counts from the end.
PyIndex(pages, i) == IF i >= 0 THEN pages[i + 1] ELSE pages[Len(pages) + i + 1]

\* Whether pages[i] exists: otherwise Python raises IndexError.
InRange(pages, i) == i >= 0 - Len(pages) /\ i < Len(pages)

Delimiter == "---"

\* "\n---\n".join(parts): the parts with the delimiter between neighbours.
RECURSIVE Join(_)
Join(parts) ==
    IF Len(parts) <= 1 THEN parts
    ELSE <<Head(parts), Delimiter>> \o Join(Tail(parts))

\* "\n---\n".join(pages[i] for i in I[0]): the joined texts, in order.
ContextOf(pages, labels) == Join([n \in 1 .. Len(labels) |-> PyIndex(pages, labels[n])])

\* The head of the history, in place of its tail.
oldestTurns(history, limit) ==
    SubSeq(history, 1, IF limit < Len(history) THEN limit ELSE Len(history))

\* ConversationState.recentTurns(limit): the tail of the history.
RECURSIVE recentTurns(_, _)
recentTurns(history, limit) ==
    IF Len(history) <= limit THEN history ELSE recentTurns(Tail(history), limit)

\* A prompt that carries the whole history.
BuildPromptAllHistory(context, history, question) ==
    [history |-> history, context |-> context, question |-> question]

\* A prompt that leaves the retrieved context out.
BuildPromptNoContext(context, history, question) ==
    [history |-> recentTurns(history, HistoryTurns), context |-> <<>>,
     question |-> question]

\* The prompt: History, Context, Question.
BuildPrompt(context, history, question) ==
    [history |-> recentTurns(history, HistoryTurns), context |-> context,
     question |-> question]

\* A test that only looks for pages, whatever is on them.
HasPages(pages) == Len(pages) > 0

\* Whether an extraction holds any usable text (FR-03).
HasText(pages) == \E n \in 1 .. Len(pages) : pages[n] \notin {EmptyPage, BlankPage}

\* An index whose rows are in the reverse order of the pages.
BuildIndexReversed(pages) == [n \in 1 .. Len(pages) |-> Embed(pages[Len(pages) + 1 - n])]

\* faiss index over the page vectors: row i is the vector of pages[i].
BuildIndex(pages) == [n \in 1 .. Len(pages) |-> Embed(pages[n])]

NewSession(pages) == [pages |-> pages, index |-> BuildIndex(pages), chat |-> <<>>]

\* ------------------------------------------------------- the operations
\* What safe_generate hands to its caller (see SpecGen).
GenOutcomes ==
    {Returned(t) : t \in Texts} \cup {ReturnedNone} \cup {Raised(e) : e \in HardErrors}

\* Slots are taken in arrival order.
IsNextFree(r) == req[r].pc = "free" /\ \A x \in Requests : x < r => req[x].pc # "free"

\* The handler has ended without an answer: its locals are gone, the
\* error response is what is left of the request.
Failed(r, e) == [FreeRequest EXCEPT !.op = req[r].op, !.pc = "failed", !.error = e]

\* The caller has left and the handler has ended at the call's return.
Cancelled(r) ==
    [FreeRequest EXCEPT !.op = req[r].op, !.pc = "cancelled",
                        !.abandoned = req[r].abandoned,
                        !.sess = req[r].sess, !.question = req[r].question,
                        !.answer = req[r].answer, !.judged = req[r].judged]

\* The most recently registered document, whatever doc_id says.
LatestKey(r) == issued

\* The document object an ask works on: the one its doc_id names.
SessionKey(r) == req[r].sess

Session(r) == store[SessionKey(r)]

\* A handle derived from the size of DOCS: reused after an eviction.
NewHandleByCount == Cardinality(DOCS) + 1

\* doc_id: a unique UUID generated upon upload
NewHandle == issued + 1

\* A write-back of the history read for the prompt, plus the turn: the
\* turns appended in between are lost.
AppendToPromptHistory(r, history, turn) == Append(req[r].prompt.history, turn)

\* ConversationState.append(question, answer) on the session's own list.
AppendTurn(r, history, turn) == Append(history, turn)

\* The answer the evaluation call is given: the one this ask generated.
JudgedAnswer(r, answer) == answer

\* The history an ask reads for its prompt: its own session's.
HistoryFor(r) == Session(r).chat

\* A handler that does not look at the cancellation.
AppendsWhenAbandoned(r) == FALSE

\* The caller left before the generation call returned its answer.
CancelledBeforeAnswer(r) == req[r].abandoned # "no"

\* POST /upload, up to the embedding call: extract the text and verify it
\* is not empty.
IngestStart(r) ==
    /\ IsNextFree(r)
    /\ Cardinality({x \in Requests : req[x].op = "ingest"}) < MaxSessions
    /\ \E d \in Documents :
        req' = [req EXCEPT ![r] =
            IF HasText(d)
            THEN [@ EXCEPT !.op = "ingest", !.pc = "embedding", !.pages = d,
                           !.steps = <<"extract">>]
            ELSE [@ EXCEPT !.op = "ingest", !.pc = "failed", !.error = "EmptyDocument"]]
    /\ UNCHANGED <<DOCS, store, issued, evicted, clock, appends>>
    /\ UNCHANGED notSess

\* POST /upload, from the return of the embedding call: build the index,
\* generate the handle, enter the session in DOCS.
IngestRegister(r) ==
    /\ req[r].op = "ingest" /\ req[r].pc = "embedding"
    /\ \E ok \in BOOLEAN :
        IF ok
        THEN LET h == NewHandle
             IN /\ store' = [x \in DOMAIN store \cup {h} |->
                                IF x = h THEN NewSession(req[r].pages) ELSE store[x]]
                /\ DOCS' = DOCS \cup {h}
                /\ issued' = issued + 1
                /\ req' = [req EXCEPT ![r].pc = "done", ![r].sess = h,
                                      ![r].steps = Append(req[r].steps, "build")]
        ELSE /\ req' = [req EXCEPT ![r] = Failed(r, "EmbeddingFailure")]
             /\ UNCHANGED <<DOCS, store, issued>>
    /\ UNCHANGED <<evicted, clock, appends>>
    /\ UNCHANGED notSess

\* Session management outside the core: the entry of h leaves DOCS.
Evict(h) ==
    /\ h \in DOCS
    /\ DOCS' = DOCS \ {h}
    /\ evicted' = evicted \cup {h}
    /\ UNCHANGED <<store, issued, clock, req, appends>>
    /\ UNCHANGED notSess

\* The handle lookup of ask and summarize: a handle that was issued and later
\* evicted is as unknown as one that was never issued.
OnceRegistered(h) == h \in DOCS \cup evicted

Registered(h) == h \in DOCS

\* POST /ask, step 1: retrieve the document object by id; the question is
\* handed to the embedding call.
AskStart(r) ==
    /\ IsNextFree(r)
    /\ \E h \in 1 .. MaxSessions, q \in Questions, e \in BOOLEAN :
        req' = [req EXCEPT ![r] =
            IF Registered(h)
            THEN [@ EXCEPT !.op = "ask", !.pc = "embedding", !.sess = h,
                           !.question = q, !.evaluate = e, !.steps = <<"lookup">>]
            ELSE [@ EXCEPT !.op = "ask", !.pc = "failed", !.error = "SessionNotFound"]]
    /\ UNCHANGED <<DOCS, store, issued, evicted, clock, appends>>
    /\ UNCHANGED notSess

\* Steps 2 to 4: the question's vector arrives; search the index for the
\* top 3 rows and join their texts; construct the prompt with chunks +
\* history + question and hand it to the generation call.
AskRetrieve(r) ==
    /\ req[r].op = "ask" /\ req[r].pc = "embedding"
    /\ \E ok \in BOOLEAN :
        req' = [req EXCEPT ![r] =
            IF ~ok THEN Failed(r, "EmbeddingFailure")
            ELSE LET context == ContextOf(Session(r).pages,
                                    Search(Session(r).index, Embed(req[r].question), TopK))
                 IN [@ EXCEPT !.pc = "generating",
                              !.context = context,
                              !.steps = req[r].steps \o <<"retrieve", "assemble">>,
                              !.prompt = BuildPrompt(context, HistoryFor(r),
                                                     req[r].question)]]
    /\ UNCHANGED <<DOCS, store, issued, evicted, clock, appends>>
    /\ UNCHANGED notSess

\* Step 5 and the state update: the generation call ends. Only a text goes
\* on (None has no .text, an exception leaves the handler): the turn is
\* appended to the session's chat and, with evaluate set, the evaluation
\* call is issued on the answer.
AskGenerated(r) ==
    /\ req[r].op = "ask" /\ req[r].pc = "generating"
    /\ \E out \in GenOutcomes :
        IF CancelledBeforeAnswer(r)
        THEN /\ req' = [req EXCEPT ![r] = Cancelled(r)]
             /\ UNCHANGED <<store, clock, appends>>
        ELSE IF out.kind # "return"
        THEN /\ req' = [req EXCEPT ![r] =
                           Failed(r, IF out.kind = "raise" THEN out.exc ELSE "NoResult")]
             /\ UNCHANGED <<store, clock, appends>>
        ELSE LET turn == [question |-> req[r].question, answer |-> out.text,
                          timestamp |-> clock]
                 answered == [req EXCEPT ![r].answer = out.text]
             IN /\ store' = [store EXCEPT ![SessionKey(r)].chat = AppendTurn(r, @, turn)]
                /\ appends' = Append(appends,
                                  [sess |-> req[r].sess, req |-> r, turn |-> turn])
                /\ clock' = clock + 1
                /\ req' = [answered EXCEPT
                      ![r].pc = IF req[r].evaluate THEN "evaluating" ELSE "done",
                      ![r].prompt = IF req[r].evaluate THEN @ ELSE NoPrompt,
                      ![r].context = IF req[r].evaluate THEN @ ELSE <<>>,
                      ![r].judged = IF req[r].evaluate THEN JudgedAnswer(r, out.text)
                                    ELSE "none",
                      ![r].steps = req[r].steps \o <<"generate", "append">>]
    /\ UNCHANGED <<DOCS, issued, evicted>>
    /\ UNCHANGED notSess

\* An ask that fails when the grading came back null.
FailsWhenUngraded(r, ev) ==
    IF ev = NullEvaluation THEN Failed(r, "EvaluationUnparseable")
    ELSE [req[r] EXCEPT !.pc = "done", !.evaluation = ev,
                        !.prompt = NoPrompt, !.context = <<>>,
                        !.steps = Append(req[r].steps, "evaluate")]

\* The ask ends with its answer and with whatever evaluate returned.
Graded(r, ev) ==
    [req[r] EXCEPT !.pc = "done", !.evaluation = ev,
                   !.prompt = NoPrompt, !.context = <<>>,
                   !.steps = Append(req[r].steps, "evaluate")]

\* The evaluation call ends: scores, or the null evaluation.
AskEvaluated(r) ==
    /\ req[r].op = "ask" /\ req[r].pc = "evaluating"
    /\ \E ev \in Evaluations :
        req' = [req EXCEPT ![r] =
            IF req[r].abandoned # "no" THEN Cancelled(r) ELSE Graded(r, ev)]
    /\ UNCHANGED <<DOCS, store, issued, evicted, clock, appends>>
    /\ UNCHANGED notSess

\* The caller gives the request up (the client disconnects) while the
\* generation or the evaluation call is in flight; the call still ends.
Abandon(r) ==
    /\ req[r].op = "ask"
    /\ req[r].pc \in {"generating", "evaluating"}
    /\ req[r].abandoned = "no"
    /\ req' = [req EXCEPT ![r].abandoned = req[r].pc]
    /\ UNCHANGED <<DOCS, store, issued, evicted, clock, appends>>
    /\ UNCHANGED notSess

\* summarize(sessionHandle): one generation call over the full text, no
\* retrieval.
SummarizeStart(r) ==
    /\ IsNextFree(r)
    /\ \E h \in 1 .. MaxSessions :
        req' = [req EXCEPT ![r] =
            IF Registered(h)
            THEN [@ EXCEPT !.op = "summarize", !.pc = "generating", !.sess = h,
                           !.context = store[h].pages, !.steps = <<"lookup">>]
            ELSE [@ EXCEPT !.op = "summarize", !.pc = "failed",
                           !.error = "SessionNotFound"]]
    /\ UNCHANGED <<DOCS, store, issued, evicted, clock, appends>>
    /\ UNCHANGED notSess

SummarizeGenerated(r) ==
    /\ req[r].op = "summarize" /\ req[r].pc = "generating"
    /\ \E out \in GenOutcomes :
        req' = [req EXCEPT ![r] =
            IF out.kind = "return"
            THEN [@ EXCEPT !.pc = "done", !.answer = out.text, !.context = <<>>,
                           !.steps = Append(req[r].steps, "generate")]
            ELSE Failed(r, IF out.kind = "raise" THEN out.exc ELSE "NoResult")]
    /\ UNCHANGED <<DOCS, store, issued, evicted, clock, appends>>
    /\ UNCHANGED notSess

SessNext ==
    \/ \E r \in Requests : IngestStart(r)
    \/ \E r \in Requests : IngestRegister(r)
    \/ \E h \in 1 .. MaxSessions : Evict(h)
    \/ \E r \in Requests : AskStart(r)
    \/ \E r \in Requests : AskRetrieve(r)
    \/ \E r \in Requests : AskGenerated(r)
    \/ \E r \in Requests : AskEvaluated(r)
    \/ \E r \in Requests : Abandon(r)
    \/ \E r \in Requests : SummarizeStart(r)
    \/ \E r \in Requests : SummarizeGenerated(r)

\* ------------------------------------------------ ConversationState alone
\* The longest history HistNext builds.
MaxHistory == 3


\* ConversationState.append(question, answer)
HistAppend ==
    /\ Len(hist) < MaxHistory
    /\ \E q \in {"q1", "q2"}, a \in Texts :
        hist' = AppendTurn(0, hist,
                    [question |-> q, answer |-> a, timestamp |-> Len(hist) + 1])
    /\ lastOp' = "append"
    /\ UNCHANGED <<asked, recent, snap, built, psnap>>
    /\ UNCHANGED notHist

\* ConversationState.recentTurns(limit)
HistRecent ==
    /\ \E limit \in 0 .. (MaxHistory + 1) :
        /\ recent' = recentTurns(hist, limit)
        /\ asked' = limit
    /\ snap' = hist
    /\ lastOp' = IF lastOp = "append" THEN "append_recent" ELSE "recent"
    /\ UNCHANGED <<hist, built, psnap>>
    /\ UNCHANGED notHist

\* PromptAssembler.build(context, history, question) over the history
HistPrompt ==
    /\ \E q \in {"q1", "q2"} :
        built' = BuildPrompt(<<"t1">>, hist, q)
    /\ psnap' = hist
    /\ UNCHANGED <<hist, asked, recent, snap, lastOp>>
    /\ UNCHANGED notHist

HistNext == HistAppend \/ HistRecent \/ HistPrompt

\* ------------------------------------------------- EvaluationJudge alone
\* The completions the grader can send: a record of three scores in 1..5,
\* a record with a score out of range, a record with a score missing, a
\* text that is no record, and the failure of the call.
GraderResponses ==
    {Record(f) : f \in [ScoreNames -> {1, 5}]}
        \cup {Record([helpfulness |-> 7, completeness |-> 4, relevance |-> 5]),
              Record([helpfulness |-> 3, completeness |-> 0, relevance |-> 5]),
              Record([helpfulness |-> 5, completeness |-> 4]),
              [kind |-> "text"], [kind |-> "error"]}

\* A validation that takes any record of three numbers.
AcceptsAnyScores(resp) == resp.kind = "record" /\ DOMAIN resp.scores = ScoreNames

\* The completion is an Evaluation: three integer scores, each in 1..5.
Acceptable(resp) ==
    /\ resp.kind = "record"
    /\ DOMAIN resp.scores = ScoreNames
    /\ \A n \in ScoreNames : resp.scores[n] \in 1 .. 5

\* The completion arrived and is no Evaluation.
Malformed(resp) == resp.kind # "error" /\ ~Acceptable(resp)

\* One repair pass.
RepairPasses == 1

\* A judge that re-prompts as long as the completion is malformed.
RepairForever(calls) == TRUE

\* Whether a repair re-prompt may follow the completions received so far.
MayRepair(calls) == Len(calls) <= RepairPasses

\* evaluate(question, context, answer) is called: the grader is prompted.
JudgeStart ==
    /\ jpc \in {"idle", "done"}
    /\ \E q \in {"q1", "q2"}, a \in Texts : jargs' = [question |-> q, answer |-> a]
    /\ jcalls' = <<>>
    /\ jresult' = NoResult
    /\ jpc' = "grading"
    /\ UNCHANGED notJudge

\* A completion arrives. An Evaluation is returned; a malformed one is
\* answered by the repair re-prompt when one is left; anything else ends
\* the call with the null evaluation.
JudgeCompletion ==
    /\ jpc \in {"grading", "repairing"}
    /\ \E resp \in GraderResponses :
        LET calls == Append(jcalls, resp)
        IN /\ jcalls' = calls
           /\ IF Acceptable(resp)
              THEN jpc' = "done" /\ jresult' = [kind |-> "return", evaluation |-> EvaluationOf(resp)]
              ELSE IF Malformed(resp) /\ MayRepair(calls)
              THEN jpc' = "repairing" /\ jresult' = jresult
              ELSE jpc' = "done" /\ jresult' = [kind |-> "return", evaluation |-> NullEvaluation]
    /\ UNCHANGED jargs
    /\ UNCHANGED notJudge

JudgeNext == JudgeStart \/ JudgeCompletion

\* ------------------------------------------------------ retrieval alone
\* The longest document SearchBuild indexes, and the largest k searched.
MaxRows == 3
MaxK == 3

PageTexts == {"t1", "t2"}
QueryTexts == {"q1", "q2"}
QueryVectors == {Embed(t) : t \in QueryTexts \cup {"t1"}}

RECURSIVE SeqsUpTo(_, _)
SeqsUpTo(S, n) ==
    IF n = 0 THEN {<<>>}
    ELSE LET shorter == SeqsUpTo(S, n - 1)
         IN shorter \cup {Append(d, x) : d \in {y \in shorter : Len(y) = n - 1}, x \in S}

\* The page lists rag_qa can be handed, the empty one included.
SearchDocs == SeqsUpTo(PageTexts, MaxRows)

NoCall == [q |-> -1, k |-> 0, again |-> FALSE]

\* An index with a vector added to it, in place of the index left alone.
IndexWithQuery(index, qv) == Append(index, qv)

\* index.search reads the index.
IndexAfterSearch(index, qv) == index

\* rag_qa, steps 1 to 3: embed the query, search the top k=3, join the
\* pages the labels name, fill the prompt template. pages[i] raises
\* IndexError when the list has no such element.
RagSteps(pages, index, history, query) ==
    LET labels == Search(index, Embed(query), TopK)
    IN IF \E n \in 1 .. Len(labels) : ~InRange(pages, labels[n])
       THEN Raised("IndexError")
       ELSE [kind |-> "prompt", labels |-> labels,
             prompt |-> BuildPrompt(ContextOf(pages, labels), history, query)]

\* A document is indexed (embedder.encode of its pages, index.add).
SearchBuild ==
    /\ \E d \in SearchDocs :
        /\ spages' = d
        /\ sindex' = BuildIndex(d)
    /\ sarg' = NoCall
    /\ slabels' = <<>>
    /\ pinned' = NoCall
    /\ rout' = NoResult
    /\ UNCHANGED notSrch

\* _, I = index.search(q_emb, k)
SearchCall ==
    /\ \E qv \in QueryVectors, k \in 1 .. MaxK :
        /\ sarg' = [q |-> qv, k |-> k, again |-> pinned # NoCall]
        /\ slabels' = Search(sindex, qv, k)
        /\ sindex' = IndexAfterSearch(sindex, qv)
        /\ pinned' = IF pinned = NoCall
                     THEN [q |-> qv, k |-> k, again |-> FALSE,
                           labels |-> Search(sindex, qv, k)]
                     ELSE pinned
    /\ UNCHANGED <<spages, rout>>
    /\ UNCHANGED notSrch

\* rag_qa(query, pages, index, history) up to its prompt.
RagRetrieve ==
    /\ \E query \in QueryTexts :
        rout' = RagSteps(spages, sindex, <<>>, query)
    /\ UNCHANGED <<spages, sindex, sarg, slabels, pinned>>
    /\ UNCHANGED notSrch

SrchNext == SearchBuild \/ SearchCall \/ RagRetrieve


\* ------------------------------------------------------------- Chunker
\* chunk(pages, targetSize, overlap): the page texts are concatenated, every
\* chunk remembers the page its first character came from, and a window of
\* targetSize characters slides over the text, keeping `overlap` characters
\* between consecutive windows.
MaxPageLen == 2
MaxPages == 2
MaxSize == 3
Chars == {"a", " "}
PageStrings == SeqsUpTo(Chars, MaxPageLen)
ChunkDocs == SeqsUpTo(PageStrings, MaxPages)

RECURSIVE Flatten(_)
Flatten(pages) ==
    IF pages = <<>> THEN <<>> ELSE Head(pages) \o Flatten(Tail(pages))

\* The page holding the character at offset off of the concatenated text.
PageOf(pages, off) ==
    CHOOSE p \in 1 .. Len(pages) :
        /\ Len(Flatten(SubSeq(pages, 1, p - 1))) < off
        /\ off <= Len(Flatten(SubSeq(pages, 1, p)))

NonEmptyText(text) == Len(text) > 0

\* Empty or whitespace-only text is no usable text.
HasContent(text) == \E i \in 1 .. Len(text) : text[i] # " "

StepNoOverlap(size, overlap) == size

\* How far the window moves: `overlap` characters are retained.
Step(size, overlap) == size - overlap

\* The start offsets of the windows: the window that reaches the end of the
\* text is the last one.
RECURSIVE Windows(_, _, _, _)
Windows(text, start, size, overlap) ==
    IF start + size - 1 >= Len(text) THEN <<start>>
    ELSE <<start>> \o Windows(text, start + Step(size, overlap), size, overlap)

Chunk(pages, size, overlap) ==
    LET text == Flatten(pages)
        starts == Windows(text, 1, size, overlap)
    IN  IF ~HasContent(text) THEN <<>>
        ELSE [i \in 1 .. Len(starts) |->
                [id |-> i - 1,
                 sourceUnit |-> PageOf(pages, starts[i]),
                 text |-> SubSeq(text, starts[i],
                                 IF starts[i] + size - 1 < Len(text)
                                 THEN starts[i] + size - 1 ELSE Len(text))]]

\* One call of chunk on a document and a configuration with
\* targetSize > overlap >= 0.
ChunkCall ==
    /\ cpc = "idle"
    /\ \E pages \in ChunkDocs, size \in 1 .. MaxSize :
        \E overlap \in 0 .. size - 1 :
            /\ cpages' = pages
            /\ csize' = size
            /\ coverlap' = overlap
            /\ cchunks' = Chunk(pages, size, overlap)
    /\ cpc' = "done"
    /\ UNCHANGED notChunk

ChunkNext == ChunkCall


\* --------------------------------------------- dashboard: JavaScript values
\* The values a JSON response field can hold, and the value a missing field
\* reads as.
JsNull == [t |-> "null"]
JsUndefined == [t |-> "undefined"]
JsNaN == [t |-> "NaN"]
Num(n) == [t |-> "number", v |-> n]
Str(s) == [t |-> "string", v |-> s]

\* JavaScript's ToBoolean.
Truthy(v) == v \notin {JsNull, JsUndefined, JsNaN, Num(0), Str("")}

\* JavaScript's ToNumber, as Math.min and Math.max apply it.
ToNumber(v) ==
    CASE v.t = "number" -> v
      [] v.t = "null" -> Num(0)
      [] OTHER -> JsNaN

MathMin(a, b) ==
    LET x == ToNumber(a)
        y == ToNumber(b)
    IN  IF x = JsNaN \/ y = JsNaN THEN JsNaN
        ELSE IF x.v < y.v THEN x ELSE y

MathMax(a, b) ==
    LET x == ToNumber(a)
        y == ToNumber(b)
    IN  IF x = JsNaN \/ y = JsNaN THEN JsNaN
        ELSE IF x.v > y.v THEN x ELSE y

Times(a, n) == IF a = JsNaN THEN JsNaN ELSE Num(a.v * n)

Digit(d) == <<"0", "1", "2", "3", "4", "5", "6", "7", "8", "9">>[d + 1]

RECURSIVE DecimalText(_)
DecimalText(n) ==
    IF n < 0 THEN "-" \o DecimalText(-n)
    ELSE IF n < 10 THEN Digit(n) ELSE DecimalText(n \div 10) \o Digit(n % 10)

\* What a template literal `${v}` prints.
TemplateText(v) ==
    CASE v.t = "number" -> DecimalText(v.v)
      [] v.t = "string" -> v.v
      [] OTHER -> v.t

\* ------------------------------------- dashboard: rendering an evaluation
\* The scores and the evaluations an /ask response can carry: a score is a
\* number, null, or missing; the evaluation is missing, null, or an object.
ScoreValues == {JsUndefined, JsNull, Num(-2), Num(0), Num(3), Num(5), Num(7)}
ReasoningValues == {JsUndefined, Str(""), Str("grounded")}
EvaluationPayloads ==
    {JsUndefined, JsNull} \cup
    [t : {"object"}, helpfulness : ScoreValues, completeness : ScoreValues,
     relevance : ScoreValues, reasoning : ReasoningValues]

EmptyBox == [kind |-> "empty"]

\* The row without Math.max and Math.min.
renderUnclampedRow(label, score) ==
    LET percent == Times(ToNumber(score), 20)
    IN  [label |-> label, target |-> TemplateText(percent), score |-> TemplateText(score) \o "/5"]

renderEvalRow(label, score) ==
    LET percent == Times(MathMax(Num(0), MathMin(Num(5), score)), 20)
    IN  [label |-> label, target |-> TemplateText(percent), score |-> TemplateText(score) \o "/5"]

\* sendBtn.onclick, the part that fills evalBox from data.evaluation.
RenderEvaluation(evaluation) ==
    IF Truthy(evaluation) /\ evaluation.helpfulness # JsNull
    THEN [kind |-> "card",
          rows |-> <<renderEvalRow("Helpfulness", evaluation.helpfulness),
                     renderEvalRow("Completeness", evaluation.completeness),
                     renderEvalRow("Relevance", evaluation.relevance)>>,
          reasoning |-> IF Truthy(evaluation.reasoning) THEN evaluation.reasoning.v
                        ELSE "No reasoning provided."]
    ELSE IF Truthy(evaluation)
         THEN [kind |-> "json", value |-> evaluation]
         ELSE [kind |-> "text", text |-> "No evaluation returned."]

\* An /ask response with this evaluation is handled.
ShowEvaluation ==
    \E evaluation \in EvaluationPayloads :
        /\ edata' = evaluation
        /\ eshown' = RenderEvaluation(evaluation)
        /\ UNCHANGED notEval

EvalNext == ShowEvaluation


\* --------------------------------------------- dashboard: handleApiError
\* The failed responses handleApiError is handed: a status that is not 2xx, a
\* body that is not JSON or is a JSON object, and the caller's fallback text.
ErrorStatuses == {400, 401, 404, 429, 500, 502, 503}
Details == {JsUndefined, Str("Gemini rate limit exceeded"), Str("Only PDF files are supported")}
Messages == {JsUndefined, Str("Model overloaded")}
RetryAfters == {JsUndefined, Num(0), Num(5), Num(30)}
NotJson == [t |-> "not json"]
ErrorBodies ==
    {NotJson} \cup
    [t : {"object"}, detail : Details, message : Messages, retry_after : RetryAfters]
Fallbacks == {"Upload failed.", "Failed to generate summary.", "Failed to get an answer."}
\* The two copies of the helper: the dashboard's and the older page's.
Copies == {"part_004", "part_003"}

\* JavaScript's a || b.
JsOr(a, b) == IF Truthy(a) THEN a ELSE b

\* The retry-later message (its dash is written here as a hyphen).
RateLimitMessage(n) ==
    "Rate limit reached - please wait " \o TemplateText(n) \o "s and try again."

IsThrottled(status) == status \in {429, 503}

IsRateLimited(status) == status = 429

\* handleApiError(res, fallbackMsg): the message it returns, the kind of toast
\* it shows, and whether it schedules a logout.
handleApiError(copy, status, body, fallbackMsg) ==
    LET errorData == IF body = NotJson
                     THEN [t |-> "object", detail |-> Str(fallbackMsg),
                           message |-> JsUndefined, retry_after |-> JsUndefined]
                     ELSE body
        Answer(m, toast) == [msg |-> m, toast |-> toast, logout |-> FALSE]
    IN  IF copy = "part_004" /\ status = 401
        THEN [msg |-> "Session expired", toast |-> "warning", logout |-> TRUE]
        ELSE IF IsRateLimited(status)
        THEN Answer(RateLimitMessage(JsOr(errorData.retry_after, Num(10))), "warning")
        ELSE IF status = 503
        THEN Answer(IF copy = "part_004"
                    THEN JsOr(errorData.detail,
                              JsOr(errorData.message,
                                   Str("AI service temporarily unavailable. Please try again in a moment."))).v
                    ELSE "AI service temporarily unavailable. Please try again in a moment.",
                    "warning")
        ELSE IF status = 500
        THEN Answer("Server error. Please try again. If it persists, restart the backend.",
                    "error")
        ELSE IF status = 404
        THEN Answer("Document not found. It may have been deleted. Please re-upload.",
                    "error")
        ELSE IF status = 400
        THEN Answer(JsOr(errorData.detail, Str("Bad request.")).v, "warning")
        ELSE Answer(JsOr(errorData.detail, Str(fallbackMsg)).v, "error")

\* A caller hands a failed response to handleApiError (one call is followed).
HandleError ==
    /\ ares.status = 0
    /\ \E copy \in Copies, status \in ErrorStatuses, body \in ErrorBodies,
       fallbackMsg \in Fallbacks :
        /\ ares' = [copy |-> copy, status |-> status, body |-> body,
                    fallbackMsg |-> fallbackMsg]
        /\ aout' = handleApiError(copy, status, body, fallbackMsg)
    /\ UNCHANGED notErr

ErrNext == HandleError


\* ------------------------------------------- dashboard: page load and logout
\* Web storage: getItem of a missing key reads as null.
NoItems == [legalai_token |-> JsNull, legalai_user |-> JsNull]
Tokens == {Str("jwt1"), Str("jwt2")}
\* User records, and their JSON text as the storages hold it.
Users == {[t |-> "object", email |-> "cached"], [t |-> "object", email |-> "fresh"]}
JSONstringify(obj) == [t |-> "string", json |-> obj]
JSONparse(s) == IF s = Str("null") THEN JsNull ELSE s.json

NoPage ==
    [alive |-> FALSE, authToken |-> JsNull, currentUser |-> JsNull, initApp |-> FALSE,
     listeners |-> {}, leaving |-> FALSE]

AlwaysAuthorized(token) == TRUE

\* requireAuth: the value it returns.
requireAuth(token) == Truthy(token)

\* Sign-in on the login page: the token and the user go to localStorage when
\* "Remember Me" is checked and to sessionStorage otherwise; then the dashboard
\* is opened.
Login(remember) ==
    /\ ~page.alive /\ href = "/login"
    /\ \E tok \in Tokens :
        LET items == [legalai_token |-> tok, legalai_user |-> JSONstringify(
                        [t |-> "object", email |-> "cached"])]
        IN  IF remember
            THEN localStorage' = items /\ UNCHANGED sessionStorage
            ELSE sessionStorage' = items /\ UNCHANGED localStorage
    /\ href' = "/"
    /\ loggedOut' = FALSE
    /\ UNCHANGED <<page, meInFlight, docsInFlight>>
    /\ UNCHANGED notAuth

\* The dashboard page is loaded and its script runs: the auth state is read,
\* requireAuth redirects or initApp runs (listeners, two validateToken calls,
\* loadDocuments).
LoadDashboard ==
    /\ ~page.alive
    /\ LET token == JsOr(localStorage.legalai_token, sessionStorage.legalai_token)
           user == JSONparse(JsOr(localStorage.legalai_user,
                                  JsOr(sessionStorage.legalai_user, Str("null"))))
       IN  IF requireAuth(token)
           THEN /\ page' = [alive |-> TRUE, authToken |-> token, currentUser |-> user,
                            initApp |-> TRUE, listeners |-> {"logoutBtn"},
                            leaving |-> FALSE]
                /\ href' = "/"
                /\ meInFlight' = 2
                /\ docsInFlight' = 1
           ELSE /\ page' = [alive |-> TRUE, authToken |-> token, currentUser |-> user,
                            initApp |-> FALSE, listeners |-> {}, leaving |-> TRUE]
                /\ href' = "/login"
                /\ meInFlight' = 0
                /\ docsInFlight' = 0
    /\ UNCHANGED <<localStorage, sessionStorage, loggedOut>>
    /\ UNCHANGED notAuth

\* logout(): both storages lose both keys and the browser is sent to /login.
\* The page goes on running until the new page replaces it.
logout ==
    /\ localStorage' = NoItems
    /\ sessionStorage' = NoItems
    /\ href' = "/login"
    /\ page' = [page EXCEPT !.leaving = TRUE]
    /\ loggedOut' = TRUE

LogoutClick ==
    /\ page.alive /\ "logoutBtn" \in page.listeners
    /\ logout
    /\ UNCHANGED <<meInFlight, docsInFlight>>
    /\ UNCHANGED notAuth

\* validateToken, after its fetch of /me: a response that is not ok logs out;
\* an ok one replaces currentUser and the cached user in "whichever storage is
\* being used"; a failed fetch keeps a cached user and logs out without one.
MeResponse(outcome) ==
    /\ page.alive /\ meInFlight > 0
    /\ meInFlight' = meInFlight - 1
    /\ CASE outcome = "not ok" -> logout
         [] outcome = "ok" ->
                \E data \in Users :
                    /\ page' = [page EXCEPT !.currentUser = data]
                    /\ IF localStorage.legalai_token # JsNull
                       THEN /\ localStorage' =
                                [localStorage EXCEPT !.legalai_user = JSONstringify(data)]
                            /\ UNCHANGED sessionStorage
                       ELSE /\ sessionStorage' =
                                [sessionStorage EXCEPT !.legalai_user = JSONstringify(data)]
                            /\ UNCHANGED localStorage
                    /\ UNCHANGED <<href, loggedOut>>
         [] OTHER ->
                IF Truthy(page.currentUser)
                THEN UNCHANGED <<page, localStorage, sessionStorage, href, loggedOut>>
                ELSE logout
    /\ UNCHANGED docsInFlight
    /\ UNCHANGED notAuth

\* loadDocuments, after its fetch of /documents: 401 logs out.
DocumentsResponse(status) ==
    /\ page.alive /\ docsInFlight > 0
    /\ docsInFlight' = docsInFlight - 1
    /\ IF status = 401 THEN logout
       ELSE UNCHANGED <<page, localStorage, sessionStorage, href, loggedOut>>
    /\ UNCHANGED meInFlight
    /\ UNCHANGED notAuth

\* The navigation away completes: the page and its pending callbacks are gone.
Unload ==
    /\ page.alive /\ page.leaving
    /\ page' = NoPage
    /\ meInFlight' = 0
    /\ docsInFlight' = 0
    /\ UNCHANGED <<localStorage, sessionStorage, href, loggedOut>>
    /\ UNCHANGED notAuth

AuthNext ==
    \/ \E remember \in BOOLEAN : Login(remember)
    \/ LoadDashboard
    \/ LogoutClick
    \/ \E outcome \in {"ok", "not ok", "failed"} : MeResponse(outcome)
    \/ \E status \in {200, 401} : DocumentsResponse(status)
    \/ Unload


\* ------------------------------------- dashboard: documents and the chat box
\* The user's operations on the dashboard (choose a file, upload, open a
\* document of the sidebar, delete, summarize, ask, open and close the mobile
\* sidebar) and the responses to their requests, which arrive in any order.
\* The sidebar is taken to list the documents the server holds: loadDocuments,
\* which upload and deleteDoc call, only redraws it, and what its response does
\* is followed by DocumentsResponse. One document of an earlier session is
\* listed when the page is opened.
MaxOps == 3
MaxDocs == 2
DocId(i) == [t |-> "string", uuid |-> i]
\* data.full_text of the upload response for document i.
FullTextOf(i) == [t |-> "string", fullTextOf |-> i]
HistoryLengths == {1, 2}
\* What an ok /ask response carries as evaluation here (all forms: see
\* EvaluationPayloads).
AskEvaluations ==
    {JsUndefined,
     [t |-> "object", helpfulness |-> Num(5), completeness |-> Num(3),
      relevance |-> Num(5), reasoning |-> Str("grounded")]}

\* What the responses carry about document i: its file name, the text of its
\* structured data, its turns, the answer to a question about it; and the
\* question the user types while it is selected.
FileName(i) == "doc" \o ToString(i) \o ".pdf"
Structured(i) == "structured data of doc" \o ToString(i)
Turn(i, k) ==
    [user |-> "Q" \o ToString(k) \o " about doc" \o ToString(i),
     assistant |-> "A" \o ToString(k) \o " about doc" \o ToString(i)]
ChatHistory(i, n) == [k \in 1 .. n |-> Turn(i, k)]
TypedQuestion(i) == "typed about doc" \o ToString(i)
AnswerText(i) == "answer about doc" \o ToString(i)
SummaryOf(i) == "summary of doc" \o ToString(i)
ChipsOf(doc_id) == "chips for " \o (IF doc_id.t = "string" THEN FileName(doc_id.uuid) ELSE doc_id.t)

\* The elements of the chat box.
WelcomeCard == [class |-> "chat-welcome"]
TypingIndicator == [class |-> "typing-indicator"]
Msg(role, text) == [class |-> "msg", role |-> role, text |-> text]

Welcome == <<WelcomeCard>>

RECURSIVE RemoveFirst(_, _)
RemoveFirst(box, class) ==
    IF box = <<>> THEN <<>>
    ELSE IF Head(box).class = class THEN Tail(box)
    ELSE <<Head(box)>> \o RemoveFirst(Tail(box), class)

\* addMsg(role, text): the welcome card and one typing indicator are removed,
\* the message is appended.
addMsg(box, role, text) ==
    Append(RemoveFirst(RemoveFirst(box, "chat-welcome"), "typing-indicator"), Msg(role, text))

showTypingIndicator(box) == Append(RemoveFirst(box, "chat-welcome"), TypingIndicator)

removeTypingIndicator(box) == RemoveFirst(box, "typing-indicator")

RECURSIVE ForEachTurn(_, _)
ForEachTurn(box, history) ==
    IF history = <<>> THEN box
    ELSE ForEachTurn(addMsg(addMsg(box, "user", Head(history).user),
                            "assistant", Head(history).assistant),
                     Tail(history))

\* The turns newest first.
renderNewestFirst(history) ==
    ForEachTurn(<<>>, [k \in 1 .. Len(history) |-> history[Len(history) + 1 - k]])

\* renderHistory(history): the chat box is emptied, then every turn adds its
\* two messages.
renderHistory(history) == ForEachTurn(<<>>, history)

Request(kind, n, doc_id, full_text) ==
    [kind |-> kind, n |-> n, doc_id |-> doc_id, full_text |-> full_text]

\* fetchSuggestions(id): the request it sends.
fetchSuggestions(id) == Request("suggest", 0, id, currentDocFullText')

\* loadDocuments(): the request it sends.
loadDocuments == Request("documents", 0, JsNull, JsNull)

\* How a request ends: a 2xx response with a JSON body, a 401, a 404 with a
\* JSON detail, a 500 with a plain-text body, a 2xx response whose body cannot
\* be read as the handler expects, or a fetch that fails.
Outcomes == {"ok", "401", "404", "500", "unreadable", "failed"}
StatusOf(outcome) ==
    CASE outcome = "401" -> 401
      [] outcome = "404" -> 404
      [] outcome = "500" -> 500
      [] OTHER -> 200
BodyOf(outcome) ==
    IF outcome = "404"
    THEN [t |-> "object", detail |-> Str("Document not found"), message |-> JsUndefined,
          retry_after |-> JsUndefined]
    ELSE NotJson
\* await handleApiError(res, fallbackMsg) in the dashboard: the message.
ErrMsg(outcome, fallbackMsg) ==
    handleApiError("part_004", StatusOf(outcome), BodyOf(outcome), fallbackMsg).msg

OnServer(doc_id) == doc_id.t = "string" /\ doc_id.uuid \in serverDocs

\* The server answers 404 for a document it does not hold, and only then; it
\* has a document to send or delete only while it holds it.
Possible(r, outcome) ==
    /\ outcome = "404" => (r.kind \in {"load", "delete", "ask", "summarize"} /\ ~OnServer(r.doc_id))
    /\ (outcome = "ok" /\ r.kind \in {"load", "delete"}) => OnServer(r.doc_id)

ConnectMsg == "Could not connect to the server. Is the backend running?"

isMobile(width) == width <= 768
Widths == {768, 769}

toggleOnlySidebar(sb, width) ==
    IF isMobile(width)
    THEN [sb EXCEPT !.mobileOpen = ~sb.mobileOpen]
    ELSE sb

toggleSidebar(sb, width) ==
    IF isMobile(width)
    THEN [sb EXCEPT !.mobileOpen = ~sb.mobileOpen, !.overlayActive = ~sb.overlayActive]
    ELSE sb

\* if (window.innerWidth <= 768) { both classes are removed }
closeOnMobile(sb, width) ==
    IF isMobile(width)
    THEN [sb EXCEPT !.mobileOpen = FALSE, !.overlayActive = FALSE]
    ELSE sb

selection == <<docId, currentDocFullText>>
panels == <<jsonBox, summaryBox, suggestBox, evalBox, uploadStatus>>
uploadControls == <<selectedFile, uploadBtn, uploadProgress>>
server == <<serverDocs, uploads>>

CanClick == active /\ ops < MaxOps

\* logout(): the page is left.
Leave ==
    /\ active' = FALSE
    /\ inflight' = {}

\* loads: the calls of loadDocument made one after another, each with how it
\* ended so far, since anything else wrote the selection or the chat box.
Logged(r, outcome) ==
    IF \E k \in DOMAIN loads : loads[k].n = r.n
    THEN [k \in DOMAIN loads |->
            IF loads[k].n = r.n
            THEN [loads[k] EXCEPT !.state = IF outcome = "ok" THEN "ok" ELSE "failed"]
            ELSE loads[k]]
    ELSE <<>>

\* The response to request r that ended as outcome is being handled.
Handling(r, outcome) ==
    /\ active
    /\ r \in inflight
    /\ Possible(r, outcome)
    /\ ops' = ops

\* A PDF is chosen or dropped: showSelectedFile.
SelectFile ==
    /\ active
    /\ ~(selectedFile /\ uploadBtn = "flex")
    /\ selectedFile' = TRUE
    /\ uploadBtn' = "flex"
    /\ UNCHANGED <<selection, panels, server, chatBox, lastToast, uploadProgress, summarizeBtn,
                   sidebar, inflight, ops, active, loads>>
    /\ UNCHANGED notDash

\* uploadProgress.style.display while a file is being sent, and afterwards.
ProgressShown == "block"

ProgressHidden == "none"

\* uploadBtn.onclick up to its fetch. The button can be clicked while it is
\* shown.
UploadClick ==
    /\ CanClick /\ uploadBtn = "flex"
    /\ uploads + Cardinality({r \in inflight : r.kind = "upload"}) < MaxDocs
    /\ ops' = ops + 1
    /\ IF ~selectedFile
       THEN /\ lastToast' = "No file selected. Please choose a PDF."
            /\ UNCHANGED <<uploadBtn, uploadProgress, uploadStatus, inflight>>
       ELSE /\ uploadBtn' = "none"
            /\ uploadProgress' = ProgressShown
            /\ uploadStatus' = "Uploading & analyzing..."
            /\ inflight' = inflight \cup {Request("upload", ops + 1, JsNull, JsNull)}
            /\ UNCHANGED lastToast
    /\ loads' = <<>>
    /\ UNCHANGED <<selection, server, chatBox, jsonBox, summaryBox, suggestBox, evalBox,
                   selectedFile, summarizeBtn, sidebar, active>>
    /\ UNCHANGED notDash

\* uploadBtn.onclick after its fetch.
UploadResponse(outcome) ==
    /\ \E r \in inflight :
        /\ r.kind = "upload"
        /\ Handling(r, outcome)
        /\ CASE outcome = "ok" ->
                    \E full_text \in {FullTextOf(uploads + 1), JsUndefined} :
                        /\ docId' = DocId(uploads + 1)
                        /\ currentDocFullText' = JsOr(full_text, JsNull)
                        /\ uploadStatus' = "Uploaded: " \o FileName(uploads + 1)
                        /\ jsonBox' = Structured(uploads + 1)
                        /\ summaryBox' = ""
                        /\ suggestBox' = ""
                        /\ inflight' = (inflight \ {r}) \cup
                                            {loadDocuments, fetchSuggestions(docId')}
                        /\ uploadBtn' = "none"
                        /\ uploadProgress' = ProgressHidden
                        /\ chatBox' = Welcome
                        /\ lastToast' = FileName(uploads + 1) \o " uploaded successfully!"
                        /\ serverDocs' = serverDocs \cup {uploads + 1}
                        /\ uploads' = uploads + 1
                        /\ UNCHANGED <<evalBox, selectedFile, active>>
             [] outcome = "401" ->
                    /\ Leave
                    /\ UNCHANGED <<selection, panels, uploadControls, server, chatBox, lastToast>>
             [] outcome \in {"404", "500"} ->
                    /\ lastToast' = ErrMsg(outcome, "Upload failed.")
                    /\ uploadStatus' = ErrMsg(outcome, "Upload failed.")
                    /\ uploadProgress' = ProgressHidden
                    /\ uploadBtn' = "flex"
                    /\ inflight' = inflight \ {r}
                    /\ UNCHANGED <<selection, server, chatBox, jsonBox, summaryBox, suggestBox,
                                   evalBox, selectedFile, active>>
             [] OTHER ->
                    /\ uploadStatus' = ""
                    /\ uploadProgress' = ProgressHidden
                    /\ uploadBtn' = "flex"
                    /\ lastToast' = ConnectMsg
                    /\ inflight' = inflight \ {r}
                    /\ UNCHANGED <<selection, server, chatBox, jsonBox, summaryBox, suggestBox,
                                   evalBox, selectedFile, active>>
    /\ loads' = <<>>
    /\ UNCHANGED <<summarizeBtn, sidebar>>
    /\ UNCHANGED notDash

\* A sidebar item is clicked: loadDocument(id) up to its fetch.
LoadDocumentClick(i) ==
    /\ CanClick /\ i \in serverDocs
    /\ inflight' = inflight \cup {Request("load", ops + 1, DocId(i), JsNull)}
    /\ ops' = ops + 1
    /\ loads' = Append(loads, [n |-> ops + 1, doc_id |-> DocId(i), state |-> "pending"])
    /\ UNCHANGED <<selection, panels, uploadControls, server, chatBox, lastToast, summarizeBtn,
                   sidebar, active>>
    /\ UNCHANGED notDash

\* loadDocument(id) after its fetch: the JSON body is read whatever the status,
\* so the body of a 404 leaves docId undefined.
LoadDocumentResponse(outcome, width) ==
    /\ \E r \in inflight :
        /\ r.kind = "load"
        /\ Handling(r, outcome)
        /\ CASE outcome \in {"ok", "404"} ->
                    \E turns \in {0} \cup HistoryLengths :
                        LET found == outcome = "ok"
                            i == r.doc_id.uuid
                            data == [doc_id |-> IF found THEN r.doc_id ELSE JsUndefined,
                                     chat_history |-> IF found THEN ChatHistory(i, turns)
                                                      ELSE <<>>,
                                     filename |-> IF found THEN FileName(i) ELSE "undefined",
                                     structured |-> IF found THEN Structured(i) ELSE ""]
                        IN  /\ found \/ turns = 0
                            /\ docId' = data.doc_id
                            /\ currentDocFullText' = currentDocFullText
                            /\ jsonBox' = data.structured
                            /\ chatBox' = IF Len(data.chat_history) > 0
                                          THEN renderHistory(data.chat_history)
                                          ELSE Welcome
                            /\ summaryBox' = ""
                            /\ evalBox' = EmptyBox
                            /\ uploadStatus' = "Loaded: " \o data.filename
                            /\ suggestBox' = ""
                            /\ inflight' = (inflight \ {r}) \cup {fetchSuggestions(docId')}
                            /\ sidebar' = closeOnMobile(sidebar, width)
                            /\ UNCHANGED <<lastToast, active>>
             [] outcome = "401" ->
                    /\ Leave
                    /\ UNCHANGED <<selection, panels, chatBox, lastToast, sidebar>>
             [] OTHER ->
                    /\ lastToast' = "Failed to load document"
                    /\ inflight' = inflight \ {r}
                    /\ UNCHANGED <<selection, panels, chatBox, sidebar, active>>
        /\ loads' = Logged(r, outcome)
    /\ UNCHANGED <<uploadControls, server, summarizeBtn>>
    /\ UNCHANGED notDash

\* deleteDoc(id) up to its fetch: the user confirms or cancels.
DeleteDocClick(i, confirmed) ==
    /\ CanClick /\ i \in serverDocs
    /\ IF confirmed
       THEN /\ inflight' = inflight \cup {Request("delete", ops + 1, DocId(i), JsNull)}
            /\ ops' = ops + 1
            /\ loads' = <<>>
       ELSE UNCHANGED <<inflight, ops, loads>>
    /\ UNCHANGED <<selection, panels, uploadControls, server, chatBox, lastToast, summarizeBtn,
                   sidebar, active>>
    /\ UNCHANGED notDash

\* The test deleteDoc makes when the awaited fetch has returned.
AlwaysSelected(id) == TRUE

IsSelected(id) == docId = id

\* deleteDoc(id) after its fetch: the response is not looked at, only a fetch
\* that fails goes to the catch block.
DeleteDocResponse(outcome) ==
    /\ \E r \in inflight :
        /\ r.kind = "delete"
        /\ Handling(r, outcome)
        /\ IF outcome = "failed"
           THEN /\ lastToast' = "Failed to delete document"
                /\ inflight' = inflight \ {r}
                /\ UNCHANGED <<selection, panels, chatBox, serverDocs>>
           ELSE /\ IF IsSelected(r.doc_id)
                   THEN /\ docId' = JsNull
                        /\ currentDocFullText' = JsNull
                        /\ jsonBox' = ""
                        /\ summaryBox' = ""
                        /\ suggestBox' = ""
                        /\ chatBox' = Welcome
                        /\ evalBox' = EmptyBox
                        /\ uploadStatus' = ""
                   ELSE UNCHANGED <<selection, panels, chatBox>>
                /\ inflight' = (inflight \ {r}) \cup {loadDocuments}
                /\ lastToast' = "Document deleted successfully"
                /\ serverDocs' = IF outcome = "ok" THEN serverDocs \ {r.doc_id.uuid}
                                 ELSE serverDocs
    /\ loads' = <<>>
    /\ UNCHANGED <<uploadControls, uploads, summarizeBtn, sidebar, active>>
    /\ UNCHANGED notDash

\* loadDocuments after its fetch: a 401 logs out; otherwise the sidebar list,
\* which is taken to show the documents the server holds, is redrawn.
SidebarResponse(outcome) ==
    /\ \E r \in inflight :
        /\ r.kind = "documents"
        /\ Handling(r, outcome)
        /\ IF outcome = "401" THEN Leave
           ELSE inflight' = inflight \ {r} /\ UNCHANGED active
    /\ UNCHANGED <<selection, panels, uploadControls, server, chatBox, lastToast, summarizeBtn,
                   sidebar, loads>>
    /\ UNCHANGED notDash

\* summarizeBtn.onclick up to its fetch.
SummarizeClick ==
    /\ CanClick
    /\ IF ~Truthy(docId)
       THEN UNCHANGED <<summarizeBtn, summaryBox, inflight, ops>>
       ELSE /\ ops' = ops + 1
            /\ summarizeBtn' = "loading"
            /\ summaryBox' = "Generating summary..."
            /\ inflight' = inflight \cup
                    {Request("summarize", ops + 1, docId, currentDocFullText)}
    /\ UNCHANGED <<selection, jsonBox, suggestBox, evalBox, uploadStatus, uploadControls,
                   server, chatBox, lastToast, sidebar, active, loads>>
    /\ UNCHANGED notDash

NeverCleared(cls) == cls

\* finally { summarizeBtn.classList.remove("loading") }
removeLoading(cls) == ""

\* summarizeBtn.onclick after its fetch.
SummarizeResponse(outcome) ==
    /\ \E r \in inflight :
        /\ r.kind = "summarize"
        /\ Handling(r, outcome)
        /\ summarizeBtn' = removeLoading(summarizeBtn)
        /\ CASE outcome = "ok" ->
                    /\ summaryBox' = SummaryOf(r.doc_id.uuid)
                    /\ lastToast' = "Summary generated!"
                    /\ inflight' = inflight \ {r}
                    /\ UNCHANGED active
             [] outcome = "401" ->
                    /\ Leave
                    /\ UNCHANGED <<summaryBox, lastToast>>
             [] outcome \in {"404", "500"} ->
                    /\ summaryBox' = ErrMsg(outcome, "Failed to generate summary.")
                    /\ lastToast' = ErrMsg(outcome, "Failed to generate summary.")
                    /\ inflight' = inflight \ {r}
                    /\ UNCHANGED active
             [] OTHER ->
                    /\ summaryBox' = ConnectMsg
                    /\ lastToast' = "Failed to generate summary"
                    /\ inflight' = inflight \ {r}
                    /\ UNCHANGED active
    /\ UNCHANGED <<selection, jsonBox, suggestBox, evalBox, uploadStatus, uploadControls,
                   server, chatBox, sidebar, loads>>
    /\ UNCHANGED notDash

\* fetchSuggestions after its fetch: the chips are drawn when the body has
\* questions.
SuggestResponse(outcome) ==
    /\ \E r \in inflight :
        /\ r.kind = "suggest"
        /\ Handling(r, outcome)
        /\ CASE outcome = "401" -> Leave /\ UNCHANGED suggestBox
             [] outcome = "ok" ->
                    /\ suggestBox' \in {suggestBox, ChipsOf(r.doc_id)}
                    /\ inflight' = inflight \ {r}
                    /\ UNCHANGED active
             [] OTHER ->
                    /\ inflight' = inflight \ {r}
                    /\ UNCHANGED <<suggestBox, active>>
    /\ UNCHANGED <<selection, jsonBox, summaryBox, evalBox, uploadStatus, uploadControls,
                   server, chatBox, lastToast, summarizeBtn, sidebar, loads>>
    /\ UNCHANGED notDash

\* sendBtn.onclick up to its fetch; typed is whether the input holds a
\* question.
SendClick(typed) ==
    /\ CanClick
    /\ IF ~Truthy(docId)
       THEN /\ chatBox' = addMsg(chatBox, "assistant", "Upload a PDF first.")
            /\ ops' = ops + 1
            /\ loads' = <<>>
            /\ UNCHANGED <<evalBox, inflight>>
       ELSE IF ~typed
       THEN UNCHANGED <<chatBox, evalBox, inflight, ops, loads>>
       ELSE /\ ops' = ops + 1
            /\ chatBox' = showTypingIndicator(
                            addMsg(chatBox, "user", TypedQuestion(docId.uuid)))
            /\ evalBox' = EmptyBox
            /\ inflight' = inflight \cup {Request("ask", ops + 1, docId, currentDocFullText)}
            /\ loads' = <<>>
    /\ UNCHANGED <<selection, jsonBox, summaryBox, suggestBox, uploadStatus, uploadControls,
                   server, lastToast, summarizeBtn, sidebar, active>>
    /\ UNCHANGED notDash

\* sendBtn.onclick after its fetch.
AskResponse(outcome) ==
    /\ \E r \in inflight :
        /\ r.kind = "ask"
        /\ Handling(r, outcome)
        /\ LET box == removeTypingIndicator(chatBox)
           IN  CASE outcome = "401" ->
                        /\ Leave
                        /\ chatBox' = box
                        /\ UNCHANGED <<evalBox, lastToast>>
                 [] outcome = "ok" ->
                        \E turns \in {0} \cup HistoryLengths, evaluation \in AskEvaluations :
                            /\ chatBox' = IF turns = 0
                                          THEN addMsg(box, "assistant", AnswerText(r.doc_id.uuid))
                                          ELSE renderHistory(ChatHistory(r.doc_id.uuid, turns))
                            /\ evalBox' = RenderEvaluation(evaluation)
                            /\ inflight' = inflight \ {r}
                            /\ UNCHANGED <<lastToast, active>>
                 [] outcome \in {"404", "500"} ->
                        /\ chatBox' = addMsg(box, "assistant",
                                             ErrMsg(outcome, "Failed to get an answer."))
                        /\ lastToast' = ErrMsg(outcome, "Failed to get an answer.")
                        /\ inflight' = inflight \ {r}
                        /\ UNCHANGED <<evalBox, active>>
                 [] outcome = "unreadable" ->
                        /\ chatBox' = addMsg(removeTypingIndicator(box), "assistant", ConnectMsg)
                        /\ lastToast' = "Connection error"
                        /\ inflight' = inflight \ {r}
                        /\ UNCHANGED <<evalBox, active>>
                 [] OTHER ->
                        /\ chatBox' = addMsg(box, "assistant", ConnectMsg)
                        /\ lastToast' = "Connection error"
                        /\ inflight' = inflight \ {r}
                        /\ UNCHANGED <<evalBox, active>>
    /\ loads' = <<>>
    /\ UNCHANGED <<selection, jsonBox, summaryBox, suggestBox, uploadStatus, uploadControls,
                   server, summarizeBtn, sidebar>>
    /\ UNCHANGED notDash

uiRest ==
    <<selection, panels, uploadControls, server, chatBox, lastToast, summarizeBtn, inflight, ops,
      active, loads>>

\* sidebarToggle or sidebarCloseMobile is clicked: toggleSidebar. The class
\* "collapsed" of the desktop layout and the upload dialog are left out.
ToggleClick(width) ==
    /\ active
    /\ sidebar' = toggleSidebar(sidebar, width)
    /\ UNCHANGED <<uiRest>>
    /\ UNCHANGED notDash

\* sidebarOverlay is clicked.
OverlayClick(width) ==
    /\ active
    /\ sidebar' = IF sidebar.mobileOpen THEN toggleSidebar(sidebar, width) ELSE sidebar
    /\ UNCHANGED <<uiRest>>
    /\ UNCHANGED notDash

\* miniUploadZone is clicked: openUploadModal.
OpenUploadModal(width) ==
    /\ active
    /\ sidebar' = closeOnMobile(sidebar, width)
    /\ UNCHANGED uiRest
    /\ UNCHANGED notDash

DashNext ==
    \/ SelectFile
    \/ UploadClick
    \/ \E outcome \in Outcomes : UploadResponse(outcome)
    \/ \E i \in 1 .. MaxDocs : LoadDocumentClick(i)
    \/ \E outcome \in Outcomes, width \in Widths : LoadDocumentResponse(outcome, width)
    \/ \E i \in 1 .. MaxDocs, confirmed \in BOOLEAN : DeleteDocClick(i, confirmed)
    \/ \E outcome \in Outcomes : DeleteDocResponse(outcome)
    \/ \E outcome \in Outcomes : SidebarResponse(outcome)
    \/ SummarizeClick
    \/ \E outcome \in Outcomes : SummarizeResponse(outcome)
    \/ \E outcome \in Outcomes : SuggestResponse(outcome)
    \/ \E typed \in BOOLEAN : SendClick(typed)
    \/ \E outcome \in Outcomes : AskResponse(outcome)

\* The operations that touch the mobile sidebar: its three clicks, and opening
\* a document with what follows from it.
SidebarNext ==
    \/ \E width \in Widths : ToggleClick(width)
    \/ \E width \in Widths : OverlayClick(width)
    \/ \E width \in Widths : OpenUploadModal(width)
    \/ \E i \in 1 .. MaxDocs : LoadDocumentClick(i)
    \/ \E outcome \in Outcomes, width \in Widths : LoadDocumentResponse(outcome, width)
    \/ \E outcome \in Outcomes : SuggestResponse(outcome)


\* ------------------------------------------- dashboard: password reset forms
\* What the user can type into the three fields of the forgot-password view.
Emails == {" ", "a@x.io", "b@x.io"}
Answers == {" ", "blue"}
Passwords == {"12345", "123456"}

\* String.prototype.trim, on the values above.
Trim(s) == IF s = " " THEN "" ELSE s

ResetFilled(answer, newPassword) == answer # "" /\ newPassword # ""

\* The two checks before the reset request is sent.
ResetAllowed(answer, newPassword) ==
    /\ answer # "" /\ newPassword # ""
    /\ ~(Len(newPassword) < 6)

ClearedFields == [forgotEmail |-> "", forgotAnswer |-> "", newPassword |-> ""]

\* The forgot-password link of the login form is clicked.
ForgotPasswordClick ==
    /\ ~forgotPasswordView
    /\ forgotPasswordView' = TRUE
    /\ forgotStep1Form' = TRUE
    /\ forgotStep2Form' = FALSE
    /\ fields' = ClearedFields
    /\ UNCHANGED <<questionRequests, resetRequests, securityQuestionDisplay, questioned,
                   lastOutcome>>
    /\ UNCHANGED notReset

\* backToLogin / cancelReset: closeForgotView.
closeForgotView ==
    /\ forgotPasswordView
    /\ forgotPasswordView' = FALSE
    /\ UNCHANGED <<forgotStep1Form, forgotStep2Form, fields, questionRequests,
                   resetRequests, securityQuestionDisplay, questioned, lastOutcome>>
    /\ UNCHANGED notReset

\* The user types into a field of the form that is shown.
Type(field, value) ==
    /\ forgotPasswordView
    /\ IF field = "forgotEmail" THEN forgotStep1Form ELSE forgotStep2Form
    /\ fields[field] # value
    /\ fields' = [fields EXCEPT ![field] = value]
    /\ UNCHANGED <<forgotPasswordView, forgotStep1Form, forgotStep2Form, questionRequests,
                   resetRequests, securityQuestionDisplay, questioned, lastOutcome>>
    /\ UNCHANGED notReset

\* forgotStep1Form submit, up to its fetch; an empty email only shows an error.
SubmitStep1 ==
    /\ forgotPasswordView /\ forgotStep1Form
    /\ LET email == Trim(fields.forgotEmail)
       IN  /\ email # ""
           /\ questionRequests' = questionRequests \cup {[email |-> email]}
    /\ UNCHANGED <<forgotPasswordView, forgotStep1Form, forgotStep2Form, fields,
                   resetRequests, securityQuestionDisplay, questioned, lastOutcome>>
    /\ UNCHANGED notReset

\* forgotStep1Form submit, after its fetch of /auth/question.
QuestionResponse(ok) ==
    /\ \E r \in questionRequests :
        /\ questionRequests' = questionRequests \ {r}
        /\ lastOutcome' = IF ok THEN "ok" ELSE "failed"
        /\ IF ok
           THEN /\ securityQuestionDisplay' = r.email
                /\ forgotStep1Form' = FALSE
                /\ forgotStep2Form' = TRUE
                /\ questioned' = questioned \cup {r.email}
           ELSE UNCHANGED <<securityQuestionDisplay, forgotStep1Form, forgotStep2Form,
                            questioned>>
    /\ UNCHANGED <<forgotPasswordView, fields, resetRequests>>
    /\ UNCHANGED notReset

\* forgotStep2Form submit, up to its fetch; a missing answer or password, or a
\* password under 6 characters, only shows an error.
SubmitStep2 ==
    /\ forgotPasswordView /\ forgotStep2Form
    /\ LET email == Trim(fields.forgotEmail)
           answer == Trim(fields.forgotAnswer)
           newPassword == fields.newPassword
       IN  /\ ResetAllowed(answer, newPassword)
           /\ resetRequests' = resetRequests \cup
                {[email |-> email, security_answer |-> answer, new_password |-> newPassword]}
    /\ UNCHANGED <<forgotPasswordView, forgotStep1Form, forgotStep2Form, fields,
                   questionRequests, securityQuestionDisplay, questioned, lastOutcome>>
    /\ UNCHANGED notReset

\* forgotStep2Form submit, after its fetch of /auth/reset-password: success
\* reloads the page, a failure shows an error.
ResetResponse(ok) ==
    /\ \E r \in resetRequests :
        IF ok
        THEN /\ forgotPasswordView' = FALSE
             /\ forgotStep1Form' = TRUE
             /\ forgotStep2Form' = FALSE
             /\ fields' = ClearedFields
             /\ questionRequests' = {}
             /\ resetRequests' = {}
             /\ securityQuestionDisplay' = ""
        ELSE /\ resetRequests' = resetRequests \ {r}
             /\ UNCHANGED <<forgotPasswordView, forgotStep1Form, forgotStep2Form, fields,
                            questionRequests, securityQuestionDisplay>>
    /\ UNCHANGED <<questioned, lastOutcome>>
    /\ UNCHANGED notReset

ResetNext ==
    \/ ForgotPasswordClick
    \/ closeForgotView
    \/ \E v \in Emails : Type("forgotEmail", v)
    \/ \E v \in Answers : Type("forgotAnswer", v)
    \/ \E v \in Passwords : Type("newPassword", v)
    \/ SubmitStep1
    \/ \E ok \in BOOLEAN : QuestionResponse(ok)
    \/ SubmitStep2
    \/ \E ok \in BOOLEAN : ResetResponse(ok)

\* ------------------------------------------------------- specifications
\* The state after construction: no call made, DOCS empty, every slot
\* free, an empty history.
\* ------------------------------------------------ dashboard: renderHistory
\* The chat histories handed to renderHistory: up to MaxTurns turns, each a
\* question and an answer drawn from two texts.
MaxTurns == 3
MaxBox == 3
UserTexts == {"What is the term?", "Who are the parties?"}
AssistantTexts == {"Two years.", "The lessor and the lessee."}
Turns == [user : UserTexts, assistant : AssistantTexts]
RECURSIVE HistoriesOf(_)
HistoriesOf(n) ==
    IF n = 0 THEN {<<>>}
    ELSE HistoriesOf(n - 1) \cup
         {Append(h, t) : h \in {g \in HistoriesOf(n - 1) : Len(g) = n - 1}, t \in Turns}
Histories == HistoriesOf(MaxTurns)

\* Before a history is rendered the chat box holds the welcome card, messages
\* or a typing indicator: a message is added.
AddMessage(role, text) ==
    /\ Len(rbox) < MaxBox
    /\ rbox' = addMsg(rbox, role, text)
    /\ rhistory' = <<>>
    /\ rdone' = FALSE
    /\ UNCHANGED notRender

\* The typing indicator is shown.
ShowTyping ==
    /\ Len(rbox) < MaxBox
    /\ rbox' = showTypingIndicator(rbox)
    /\ rhistory' = <<>>
    /\ rdone' = FALSE
    /\ UNCHANGED notRender

\* renderHistory(history) is called on the chat box as it is.
RenderHistory(history) ==
    /\ rbox' = renderHistory(history)
    /\ rhistory' = history
    /\ rdone' = TRUE
    /\ UNCHANGED notRender

RenderNext ==
    \/ \E role \in {"user", "assistant"}, text \in UserTexts : AddMessage(role, text)
    \/ ShowTyping
    \/ \E history \in Histories : RenderHistory(history)

Init ==
    /\ gpc = "idle"
    /\ prompt = "none"
    /\ attempt = 0
    /\ outcomes = <<>>
    /\ slept = <<>>
    /\ gresult = NoResult
    /\ DOCS = {}
    /\ store = <<>>
    /\ issued = 0
    /\ evicted = {}
    /\ clock = 1
    /\ req = [r \in Requests |-> FreeRequest]
    /\ appends = <<>>
    /\ hist = <<>>
    /\ asked = -1
    /\ recent = <<>>
    /\ snap = <<>>
    /\ lastOp = "none"
    /\ built = NoPrompt
    /\ psnap = <<>>
    /\ spages = <<"t1">>
    /\ sindex = BuildIndex(<<"t1">>)
    /\ sarg = NoCall
    /\ slabels = <<>>
    /\ pinned = NoCall
    /\ rout = NoResult
    /\ jpc = "idle"
    /\ jargs = [question |-> "none", answer |-> "none"]
    /\ jcalls = <<>>
    /\ jresult = NoResult
    /\ cpc = "idle"
    /\ cpages = <<>>
    /\ csize = 1
    /\ coverlap = 0
    /\ cchunks = <<>>
    /\ edata = JsUndefined
    /\ eshown = EmptyBox
    /\ ares = [copy |-> "none", status |-> 0, body |-> NotJson, fallbackMsg |-> "none"]
    /\ aout = [msg |-> "none", toast |-> "none", logout |-> FALSE]
    /\ localStorage = NoItems
    /\ sessionStorage = NoItems
    /\ href = "/login"
    /\ page = NoPage
    /\ meInFlight = 0
    /\ docsInFlight = 0
    /\ loggedOut = FALSE
    /\ docId = JsNull
    /\ currentDocFullText = JsNull
    /\ chatBox = Welcome
    /\ evalBox = EmptyBox
    /\ inflight = {}
    /\ serverDocs = {1}
    /\ uploads = 1
    /\ ops = 0
    /\ active = TRUE
    /\ jsonBox = ""
    /\ summaryBox = ""
    /\ suggestBox = ""
    /\ uploadStatus = ""
    /\ lastToast = ""
    /\ selectedFile = FALSE
    /\ uploadBtn = "none"
    /\ uploadProgress = "none"
    /\ summarizeBtn = ""
    /\ sidebar = [mobileOpen |-> FALSE, overlayActive |-> FALSE]
    /\ loads = <<>>
    /\ forgotPasswordView = FALSE
    /\ forgotStep1Form = TRUE
    /\ forgotStep2Form = FALSE
    /\ fields = ClearedFields
    /\ questionRequests = {}
    /\ resetRequests = {}
    /\ securityQuestionDisplay = ""
    /\ questioned = {}
    /\ lastOutcome = "none"
    /\ rbox = Welcome
    /\ rhistory = <<>>
    /\ rdone = FALSE

SpecGen == Init /\ [][GenNext]_vars

SpecSession == Init /\ [][SessNext]_vars

SpecHistory == Init /\ [][HistNext]_vars

SpecSearch == Init /\ [][SrchNext]_vars

SpecJudge == Init /\ [][JudgeNext]_vars

SpecChunk == Init /\ [][ChunkNext]_vars

SpecEval == Init /\ [][EvalNext]_vars

SpecApiError == Init /\ [][ErrNext]_vars

SpecAuth == Init /\ [][AuthNext]_vars

SpecDash == Init /\ [][DashNext]_vars

SpecSidebar == Init /\ [][SidebarNext]_vars

SpecReset == Init /\ [][ResetNext]_vars

SpecRender == Init /\ [][RenderNext]_vars

\* ------------------------------------------------------------- properties
\* Powers of two written out, for the waits of attempts 0 .. 4.
Doubling == <<1, 2, 4, 8, 16>>

\* The turns appended to session h, in the order of the appends.
RECURSIVE TurnsOf(_, _)
TurnsOf(log, h) ==
    IF log = <<>> THEN <<>>
    ELSE (IF Head(log).sess = h THEN <<Head(log).turn>> ELSE <<>>) \o TurnsOf(Tail(log), h)

EntriesOf(r) == {i \in 1 .. Len(appends) : appends[i].req = r}

Asks == {r \in Requests : req[r].op = "ask"}
Answered == {r \in Asks : req[r].answer \in Texts}
IngestsDone == {r \in Requests : req[r].op = "ingest" /\ req[r].pc = "done"}

\* C1: one call of generate makes at most 5 attempts, and when all 5 are
\* rate-limited the call ends by raising the ServiceExhausted failure: it
\* returns neither a text nor an empty or absent result, and it does not end
\* in another error.
C1_ExhaustionRaisesServiceExhausted ==
    /\ Len(outcomes) <= 5
    /\ (gpc = "done" /\ Len(outcomes) = 5 /\ \A i \in 1 .. 5 : outcomes[i] = RateLimit)
        => gresult = Raised("ServiceExhausted")

\* C1 witness: five rate-limited attempts, five waits, and the call has
\* ended with no result.
C1_Witness ==
    /\ gpc = "done" /\ Len(outcomes) = 5 /\ Len(slept) = 5
    /\ \A i \in 1 .. 5 : outcomes[i] = RateLimit
    /\ gresult = ReturnedNone

\* C2: when the first n < 5 attempts are rate-limited and attempt n+1
\* answers, generate returns that text after exactly n waits; the wait after
\* 0-indexed attempt i is 2^i time-units plus a jitter in [0,1), and every
\* wait is strictly longer than the one before it.
C2_BackoffThenSuccess ==
    gresult.kind = "return" =>
        LET n == Len(outcomes) - 1
        IN /\ n \in 0 .. 4
           /\ outcomes[n + 1] = "ok"
           /\ \A i \in 1 .. n : outcomes[i] = RateLimit
           /\ gresult.text \in Texts
           /\ Len(slept) = n
           /\ \A i \in 1 .. n :
                /\ slept[i] >= Doubling[i] * JitterScale
                /\ slept[i] < (Doubling[i] + 1) * JitterScale
                /\ i > 1 => slept[i] > slept[i - 1]

\* C2 witness: two rate-limited attempts, then the third answers.
C2_Witness ==
    gresult.kind = "return" /\ Len(outcomes) = 3 /\ Len(slept) = 2

\* C3: a failure that is not a rate limit, on any attempt (also after
\* rate-limited ones), ends generate at once with that hard error: it is the
\* last attempt, and no wait follows it.
C3_HardErrorEndsCall ==
    \A i \in 1 .. Len(outcomes) :
        outcomes[i] \in HardErrors =>
            /\ i = Len(outcomes)
            /\ gpc = "done"
            /\ gresult = Raised(outcomes[i])
            /\ Len(slept) = i - 1

\* C3 witness: a hard error on the third attempt, after two rate limits.
C3_Witness ==
    gresult.kind = "raise" /\ Len(outcomes) = 3 /\ Len(slept) = 2

\* C4: a turn is appended to a history only after generate returned a text
\* for that ask. Every history is exactly the turns appended for it; every
\* appended turn belongs to an ask whose generation returned a text, holds
\* that ask's question and answer, and the ask was not abandoned while the
\* generation was in flight; an ask has one appended turn when its generation
\* returned a text and none otherwise (failed, or abandoned before).
C4_AppendOnlyAfterAnswer ==
    /\ \A h \in DOMAIN store : store[h].chat = TurnsOf(appends, h)
    /\ \A i \in 1 .. Len(appends) :
        LET e == appends[i]
        IN /\ e.req \in Answered
           /\ req[e.req].abandoned # "generating"
           /\ e.sess = req[e.req].sess
           /\ e.turn.question = req[e.req].question
           /\ e.turn.answer = req[e.req].answer
    /\ \A r \in Asks :
        Cardinality(EntriesOf(r)) = IF r \in Answered THEN 1 ELSE 0

\* C4 witness: one ask was abandoned during its generation and ended with
\* no turn, another ask was answered and its turn is the only one.
C4_Witness ==
    \E r1, r2 \in Asks :
        /\ req[r1].pc = "cancelled" /\ req[r1].abandoned = "generating"
        /\ req[r2].pc = "done" /\ r2 \in Answered
        /\ Len(appends) = 1

AskOrder == <<"lookup", "retrieve", "assemble", "generate", "append", "evaluate">>

\* C5: every ask runs its steps in order: retrieval, prompt assembly,
\* generation, history append, evaluation. The prompt handed to generation
\* holds the context this ask retrieved and its question; the answer exists
\* once generation is logged; the turn is appended before evaluation begins,
\* and evaluation is given this ask's own generated answer.
C5_PipelineOrder ==
    \A r \in Asks :
        req[r].pc \notin {"failed", "cancelled"} =>
            /\ IsPrefix(req[r].steps, AskOrder)
            /\ req[r].pc \in {"generating", "evaluating"} =>
                /\ Len(req[r].steps) >= 3
                /\ req[r].prompt.question = req[r].question
                /\ req[r].prompt.context = req[r].context
                /\ req[r].context =
                       ContextOf(store[req[r].sess].pages,
                           Search(store[req[r].sess].index, Embed(req[r].question), TopK))
            /\ (r \in Answered) <=> (Len(req[r].steps) >= 5)
            /\ (req[r].pc = "evaluating" \/ Len(req[r].steps) = 6) =>
                /\ req[r].judged = req[r].answer
                /\ \E i \in EntriesOf(r) : appends[i].turn.answer = req[r].judged

\* C5 witness: an ask ran all six steps and its answer was the one judged.
C5_Witness ==
    \E r \in Asks :
        req[r].pc = "done" /\ req[r].steps = AskOrder /\ req[r].judged = req[r].answer

\* C6: the history is append-only: in every step the history of a session
\* before the step is a prefix of its history after the step.
C6_HistoryAppendOnly ==
    [][\A h \in DOMAIN store :
          h \in DOMAIN store' /\ IsPrefix(store[h].chat, store'[h].chat)]_vars

\* C6 witness: a history that has grown to two turns.
C6_Witness ==
    \E h \in DOMAIN store : Len(store[h].chat) = 2

\* C7: recentTurns(limit) returns the last min(limit, length) turns of the
\* history it read, in append order; append(q, a) followed by recentTurns(1)
\* returns exactly the turn just appended.
C7_RecentTurns ==
    asked >= 0 =>
        LET n == IF asked < Len(snap) THEN asked ELSE Len(snap)
        IN /\ Len(recent) = n
           /\ \A i \in 1 .. n : recent[i] = snap[Len(snap) - n + i]
           /\ (lastOp = "append_recent" /\ asked = 1) => recent = <<hist[Len(hist)]>>

\* C7 witness: recentTurns(2) right after the third append.
C7_Witness ==
    asked = 2 /\ Len(snap) = 3 /\ lastOp = "append_recent"

\* C8: the appends of concurrent asks of one session are serialized and none
\* is lost: a history has one turn per answered ask of its session, each
\* answered ask finds its question and answer in it, the timestamps grow
\* along the history; and the index is the one the ingest built.
C8_AppendsSerialized ==
    /\ \A h \in DOMAIN store :
        LET chat == store[h].chat
            mine == {r \in Answered : req[r].sess = h}
        IN /\ Len(chat) = Cardinality(mine)
           /\ \A r \in mine : \E i \in 1 .. Len(chat) :
                chat[i].question = req[r].question /\ chat[i].answer = req[r].answer
           /\ \A i, j \in 1 .. Len(chat) : i < j => chat[i].timestamp < chat[j].timestamp
    /\ \A r \in IngestsDone : store[req[r].sess].index = BuildIndex(req[r].pages)

\* C8 witness: two asks of one session both built their prompt on the empty
\* history (they were in flight together) and both turns are in the history.
C8_Witness ==
    \E r1, r2 \in Asks :
        /\ r1 # r2 /\ req[r1].sess = req[r2].sess
        /\ req[r1].pc = "evaluating" /\ req[r2].pc = "evaluating"
        /\ req[r1].prompt.history = <<>> /\ req[r2].prompt.history = <<>>
        /\ Len(store[req[r1].sess].chat) = 2

C10_RegistrySynchronized ==
    /\ \A r1, r2 \in IngestsDone : r1 # r2 => req[r1].sess # req[r2].sess
    /\ \A r \in IngestsDone :
        /\ req[r].sess \in DOCS \cup evicted
        /\ req[r].sess \in DOMAIN store
        /\ store[req[r].sess].pages = req[r].pages
        /\ store[req[r].sess].index = BuildIndex(req[r].pages)
        /\ "chat" \in DOMAIN store[req[r].sess]
    /\ DOCS \cap evicted = {}
    /\ Cardinality(DOCS \cup evicted) = Cardinality(IngestsDone)

\* C10 witness: two ingests overlapped (the later one registered first), one
\* of the two sessions was evicted and the other is still registered.
C10_Witness ==
    \E r1, r2 \in IngestsDone :
        /\ r1 < r2 /\ req[r1].sess > req[r2].sess
        /\ Cardinality(evicted) = 1 /\ Cardinality(DOCS) = 1

Min(a, b) == IF a < b THEN a ELSE b

\* The parts of a joined context: every second element is a delimiter.
PartsOf(context) == [n \in 1 .. ((Len(context) + 1) \div 2) |-> context[2 * n - 1]]

\* C11: search(q, k) returns exactly min(k, numChunks) results, each a row
\* of the index (no padding entry, no duplicate), in non-decreasing squared
\* L2 distance to q; on an index with no rows the result is empty.
C11_SearchReturnsMinKChunks ==
    sarg # NoCall =>
        /\ Len(slabels) = Min(sarg.k, Len(sindex))
        /\ \A n \in 1 .. Len(slabels) : slabels[n] \in 0 .. (Len(sindex) - 1)
        /\ \A m, n \in 1 .. Len(slabels) : m # n => slabels[m] # slabels[n]
        /\ \A m, n \in 1 .. Len(slabels) :
             (m < n /\ slabels[m] >= 0 /\ slabels[n] >= 0) =>
                 L2(sindex[slabels[m] + 1], sarg.q) <= L2(sindex[slabels[n] + 1], sarg.q)

\* C11 witness: a search with k = 3 on an index of one row returned that
\* row and two padding labels.
C11_Witness ==
    /\ Len(sindex) = 1 /\ sarg # NoCall /\ sarg.k = 3
    /\ slabels = <<0, -1, -1>>

C14_ContextNearestFirst ==
    rout.kind = "prompt" =>
        LET context == rout.prompt.context
            parts == PartsOf(context)
            found == Ranked(sindex, Embed(rout.prompt.question), 0 .. (Len(sindex) - 1))
        IN /\ Len(parts) = Min(TopK, Len(spages))
           /\ Len(context) = IF parts = <<>> THEN 0 ELSE 2 * Len(parts) - 1
           /\ \A n \in 1 .. Len(context) : (n % 2 = 0) => context[n] = Delimiter
           /\ \A n \in 1 .. Len(parts) :
                n <= Len(found) /\ parts[n] = spages[found[n] + 1]

\* C14 witness: two pages, the second nearer to the question: the context
\* is the second page, the first page, and the second page once more.
C14_Witness ==
    /\ spages = <<"t2", "t1">>
    /\ rout.kind = "prompt" /\ rout.prompt.question = "q1"
    /\ rout.prompt.context = <<"t1", Delimiter, "t2", Delimiter, "t1">>

NoContextMarker == "no relevant context found"

\* C15: when the retrieval of an ask is empty (the index has no rows) the
\* prompt handed to generate holds the "no relevant context" marker in its
\* context section, and no prompt has an empty context section.
C15_EmptyRetrievalHasMarker ==
    /\ (rout # NoResult /\ Len(sindex) = 0) =>
        /\ rout.kind = "prompt"
        /\ \E n \in 1 .. Len(rout.prompt.context) : rout.prompt.context[n] = NoContextMarker
    /\ rout.kind = "prompt" => rout.prompt.context # <<>>

\* C15 witness: rag_qa on a document of no pages ended in IndexError, with
\* no prompt built.
C15_Witness ==
    spages = <<>> /\ sindex = <<>> /\ rout = Raised("IndexError")

\* C13: a session's index is built once, at ingestion, and no operation
\* changes it afterwards; in every state it has one row per chunk (page)
\* and row i is the vector of chunk i.
C13_IndexBuiltOnce ==
    /\ [](\A h \in DOMAIN store :
            /\ Len(store[h].index) = Len(store[h].pages)
            /\ \A i \in 1 .. Len(store[h].pages) :
                 store[h].index[i] = Embed(store[h].pages[i]))
    /\ [][\A h \in DOMAIN store :
            /\ h \in DOMAIN store'
            /\ store'[h].index = store[h].index
            /\ store'[h].pages = store[h].pages]_vars

\* C13 witness: a session over two pages has answered an ask, been
\* evicted, and another session has been registered since.
C13_Witness ==
    \E h \in evicted :
        /\ Len(store[h].index) = 2 /\ Len(store[h].chat) = 1
        /\ \E g \in DOCS : g > h

C17_OneRepairThenNull ==
    /\ Len(jcalls) <= 2
    /\ Len(jcalls) = 2 => Malformed(jcalls[1])
    /\ jpc = "done" =>
        /\ jresult.kind = "return"
        /\ Malformed(jcalls[1]) => Len(jcalls) = 2
        /\ (Malformed(jcalls[1]) /\ Malformed(jcalls[2])) =>
               jresult.evaluation = NullEvaluation
    /\ jpc # "done" => jresult = NoResult

\* C17 witness: two malformed completions, and the null evaluation.
C17_Witness ==
    /\ jpc = "done" /\ Len(jcalls) = 2
    /\ jcalls[1] = [kind |-> "text"] /\ jcalls[2] = [kind |-> "text"]
    /\ jresult = [kind |-> "return", evaluation |-> NullEvaluation]

\* C19: an Evaluation that evaluate returns is the null evaluation or has
\* the three scores helpfulness, completeness and relevance, each an
\* integer in 1..5; a completion with a score out of 1..5 or with a score
\* missing is never what a non-null Evaluation was made from.
C19_ScoresInRange ==
    jpc = "done" =>
        LET ev == jresult.evaluation
            last == jcalls[Len(jcalls)]
        IN \/ ev = NullEvaluation
           \/ /\ ~ev.null
              /\ ScoreNames \subseteq DOMAIN ev
              /\ \A n \in ScoreNames : ev[n] \in 1 .. 5
              /\ last.kind = "record"
              /\ \A n \in ScoreNames : n \in DOMAIN last.scores /\ last.scores[n] = ev[n]

\* C19 witness: a completion with a score of 7 was repaired by one with a
\* score missing, and the null evaluation was returned.
C19_Witness ==
    /\ jpc = "done" /\ Len(jcalls) = 2
    /\ jcalls[1] = Record([helpfulness |-> 7, completeness |-> 4, relevance |-> 5])
    /\ jcalls[2] = Record([helpfulness |-> 5, completeness |-> 4])
    /\ jresult.evaluation = NullEvaluation

\* C18: a grading failure never fails the ask: an ask with evaluate set
\* whose generation returned a text, and which its caller did not abandon,
\* never ends as failed; it keeps its answer and its one turn in the
\* history whatever the evaluation was, and when it is done its evaluation
\* is a scored one or the null evaluation.
C18_GradingNeverFailsAsk ==
    /\ \A r \in Asks :
        (r \in Answered /\ req[r].evaluate /\ req[r].abandoned = "no") =>
            /\ req[r].pc \in {"evaluating", "done"}
            /\ req[r].error = "none"
            /\ Cardinality(EntriesOf(r)) = 1
            /\ \E i \in 1 .. Len(store[req[r].sess].chat) :
                 store[req[r].sess].chat[i].answer = req[r].answer
            /\ req[r].pc = "done" =>
                 (req[r].evaluation = NullEvaluation \/ ~req[r].evaluation.null)
    /\ \A r \in Requests : req[r].error # "EvaluationUnparseable"

\* C18 witness: an ask with evaluate set is done with its answer, its turn
\* and the null evaluation.
C18_Witness ==
    \E r \in Answered :
        /\ req[r].evaluate /\ req[r].pc = "done" /\ req[r].steps = AskOrder
        /\ req[r].evaluation = NullEvaluation
        /\ Len(store[req[r].sess].chat) = 1

\* C20: an ingest of pages that are all empty or whitespace fails with
\* EmptyDocument and leaves the registry as it was: in the step that takes
\* the upload, either the pages hold text and the ingest goes on, or it
\* ends as EmptyDocument with DOCS, the sessions and the handle counter
\* unchanged; no session ever holds pages without text.
C20_EmptyDocumentNoSession ==
    /\ [](\A h \in DOMAIN store :
            \E n \in 1 .. Len(store[h].pages) : store[h].pages[n] \notin {"", " "})
    /\ [][\A r \in Requests :
            (req[r].pc = "free" /\ req'[r].op = "ingest") =>
                \/ /\ req'[r].pc = "embedding"
                   /\ \E n \in 1 .. Len(req'[r].pages) : req'[r].pages[n] \notin {"", " "}
                \/ /\ req'[r].pc = "failed" /\ req'[r].error = "EmptyDocument"
                   /\ req'[r].sess = 0
                   /\ DOCS' = DOCS /\ store' = store /\ issued' = issued]_vars

\* C20 witness: with one session registered, a later ingest has failed as
\* EmptyDocument and the registry still holds that one session.
C20_Witness ==
    \E r1, r2 \in Requests :
        /\ r1 \in IngestsDone /\ r1 < r2
        /\ req[r2].op = "ingest" /\ req[r2].pc = "failed" /\ req[r2].error = "EmptyDocument"
        /\ DOCS = {req[r1].sess} /\ issued = 1

\* C21: an ask or a summarize whose handle is not in the registry (never
\* issued, or evicted) fails with SessionNotFound before any embedding or
\* generation call: the request that leaves the lookup alive names a registered
\* handle, the one that fails has made no step, and the failing step changes
\* neither the registry nor any session nor any other request, so that later
\* operations are served.
C21_UnknownHandleFails ==
    /\ [](\A r \in Requests :
            req[r].error = "SessionNotFound" =>
                /\ req[r].op \in {"ask", "summarize"} /\ req[r].pc = "failed"
                /\ req[r].steps = <<>> /\ req[r].prompt = NoPrompt
                /\ req[r].answer = "none")
    /\ [][\A r \in Requests :
            (req[r].pc = "free" /\ req'[r].op \in {"ask", "summarize"}) =>
                IF req'[r].pc = "failed"
                THEN /\ req'[r].error = "SessionNotFound"
                     /\ DOCS # 1 .. MaxSessions
                     /\ UNCHANGED <<DOCS, store, issued, evicted, appends>>
                     /\ \A x \in Requests \ {r} : req'[x] = req[x]
                ELSE req'[r].sess \in DOCS /\ req'[r].steps = <<"lookup">>]_vars

C21_Witness ==
    \E r1, r2, r3 \in Requests :
        /\ r1 < r2 /\ r2 < r3
        /\ req[r1].op = "ingest" /\ req[r1].pc = "done"
        /\ req[r2].pc = "failed" /\ req[r2].error = "SessionNotFound"
        /\ req[r3].op = "ask" /\ req[r3].pc = "done" /\ req[r3].sess \in DOCS

\* What is left of chunk i after its overlap with the chunk before it is
\* removed.
Fresh(chunks, i, overlap) ==
    IF i = 1 THEN chunks[i].text
    ELSE SubSeq(chunks[i].text, overlap + 1, Len(chunks[i].text))

RECURSIVE Reassemble(_, _, _)
Reassemble(chunks, i, overlap) ==
    IF i > Len(chunks) THEN <<>>
    ELSE Fresh(chunks, i, overlap) \o Reassemble(chunks, i + 1, overlap)

\* C22: for every document with nonempty text (text that is not empty or
\* whitespace-only, the case the Chunker sets apart) and every
\* targetSize > overlap >= 0, chunk returns at least one chunk; the chunks are
\* in document order (ids 0, 1, 2, ... and page indexes never decreasing);
\* each chunk begins with exactly the last `overlap` characters of the chunk
\* before it and goes on with new text; and the chunks, each after the first
\* without its overlap, concatenate to the document text.
C22_ChunksReconstructDocument ==
    (cpc = "done" /\ HasContent(Flatten(cpages))) =>
        /\ csize > coverlap /\ coverlap >= 0
        /\ Len(cchunks) >= 1
        /\ \A i \in 1 .. Len(cchunks) :
            /\ cchunks[i].id = i - 1
            /\ Len(cchunks[i].text) <= csize
            /\ cchunks[i].sourceUnit \in 1 .. Len(cpages)
        /\ \A i \in 1 .. Len(cchunks) - 1 :
            /\ cchunks[i].sourceUnit <= cchunks[i + 1].sourceUnit
            /\ Len(cchunks[i].text) = csize
            /\ Len(cchunks[i + 1].text) > coverlap
            /\ SubSeq(cchunks[i].text, csize - coverlap + 1, csize)
                 = SubSeq(cchunks[i + 1].text, 1, coverlap)
        /\ Reassemble(cchunks, 1, coverlap) = Flatten(cpages)

C22_Witness ==
    /\ cpc = "done" /\ coverlap = 1 /\ csize = 3
    /\ Len(cpages) = 2 /\ Len(Flatten(cpages)) = 4
    /\ Len(cchunks) = 2
    /\ cchunks[1].sourceUnit = 1 /\ cchunks[2].sourceUnit = 2
    /\ cchunks[1].text = <<"a", " ", "a">> /\ cchunks[2].text = <<"a", "a">>

\* C23: chunk returns zero chunks for empty or whitespace-only text, and exactly
\* one chunk, holding the full text, for a document with text that is shorter
\* than targetSize.
C23_ChunkEdgeCases ==
    cpc = "done" =>
        LET text == Flatten(cpages)
        IN  /\ (\A i \in 1 .. Len(text) : text[i] = " ") => cchunks = <<>>
            /\ (HasContent(text) /\ Len(text) < csize) =>
                    /\ Len(cchunks) = 1
                    /\ cchunks[1].text = text

C23_Witness ==
    /\ cpc = "done" /\ csize = 3
    /\ cpages = <<<<" ">>, <<" ">>>> /\ cchunks = <<>>

\* The three scores of an evaluation, and whether each is a number.
AllScoresNumbers(evaluation) ==
    /\ evaluation \notin {JsUndefined, JsNull}
    /\ \A s \in {evaluation.helpfulness, evaluation.completeness, evaluation.relevance} :
            s.t = "number"

\* C24: a null evaluation is shown as not available, never as a score: for an
\* ask response whose evaluation is null, is absent, or has a score that is null
\* or absent, evalBox holds no score row; score rows are rendered only when all
\* three scores are numbers.
C24_NullEvaluationNeverScored ==
    (eshown.kind = "card") => AllScoresNumbers(edata)

\* The evaluation the judge falls back to (scores absent, reasoning empty) is
\* rendered as three rows reading undefined/5 with a bar target of NaN.
C24_Witness ==
    /\ edata = [t |-> "object", helpfulness |-> JsUndefined, completeness |-> JsUndefined,
                relevance |-> JsUndefined, reasoning |-> Str("")]
    /\ eshown.kind = "card"
    /\ \A i \in 1 .. 3 : eshown.rows[i].score = "undefined/5" /\ eshown.rows[i].target = "NaN"

\* The retry-later messages, whatever the number of seconds.
RateLimitMessages == {RateLimitMessage(Num(n)) : n \in {0, 5, 10, 30}}

Handled == ares.status # 0

\* C25 as stated: handleApiError returns the retry-later message for status 429
\* and only for it, with N = retry_after, or 10 when retry_after is absent;
\* a 429 never yields the fallback message.
C25_RateLimitDistinguishable ==
    Handled =>
        /\ (aout.msg \in RateLimitMessages) <=> (ares.status = 429)
        /\ (ares.status = 429) =>
            /\ aout.msg # ares.fallbackMsg
            /\ aout.msg = RateLimitMessage(
                    IF ares.body = NotJson \/ ares.body.retry_after = JsUndefined
                    THEN Num(10) ELSE ares.body.retry_after)

\* C25 with the number of seconds as the code computes it: handleApiError
\* returns the retry-later message for status 429 and only for it; N is
\* retry_after when that is a number other than 0, and 10 when it is absent or
\* 0; a 429 never yields the fallback message.
C25_RateLimitDistinguishableAmended ==
    Handled =>
        /\ (aout.msg \in RateLimitMessages) <=> (ares.status = 429)
        /\ (ares.status = 429) =>
            /\ aout.msg # ares.fallbackMsg
            /\ aout.toast = "warning" /\ ~aout.logout
            /\ aout.msg = RateLimitMessage(
                    IF ares.body = NotJson
                       \/ ares.body.retry_after \in {JsUndefined, Num(0)}
                    THEN Num(10) ELSE ares.body.retry_after)

C25_Witness ==
    /\ ares.status = 429 /\ ares.body # NotJson /\ ares.body.retry_after = Num(0)
    /\ aout.msg = "Rate limit reached - please wait 10s and try again."

StoredKeys ==
    {localStorage.legalai_token, localStorage.legalai_user,
     sessionStorage.legalai_token, sessionStorage.legalai_user}

\* C26: a dashboard page loaded while neither localStorage nor sessionStorage
\* holds an auth token is never initialised (initApp does not run, no listener
\* is registered, no backend request is sent) and the browser is sent to
\* /login.
C26_NoTokenNoDashboard ==
    /\ [][(~page.alive /\ page'.alive
            /\ localStorage.legalai_token = JsNull
            /\ sessionStorage.legalai_token = JsNull) =>
                (page'.authToken = JsNull /\ href' = "/login")]_vars
    /\ [](page.alive /\ ~Truthy(page.authToken) =>
            /\ ~page.initApp /\ page.listeners = {}
            /\ meInFlight = 0 /\ docsInFlight = 0
            /\ href = "/login" /\ page.leaving)

C26_Witness ==
    /\ page.alive /\ page.authToken = JsNull /\ ~page.initApp
    /\ href = "/login" /\ loggedOut

\* C27: logout wipes all auth data: the step that logs out leaves neither
\* legalai_token nor legalai_user in localStorage or sessionStorage and sends
\* the browser to /login; from then on, until somebody signs in, the storages
\* hold neither key, and a page loaded in that time finds no token.
C27_LogoutWipesAuthData ==
    /\ [][(loggedOut' /\ page.initApp /\ ~page.leaving /\ page'.leaving) =>
            (StoredKeys' = {JsNull} /\ href' = "/login")]_vars
    /\ [](loggedOut => StoredKeys = {JsNull})
    /\ [](loggedOut /\ page.alive /\ ~page.initApp => page.authToken = JsNull)

\* After a logout the page was replaced by the login page, and sessionStorage
\* holds a user record again.
C27_Witness ==
    /\ loggedOut /\ ~page.alive /\ href = "/login"
    /\ sessionStorage.legalai_user # JsNull
    /\ sessionStorage.legalai_token = JsNull /\ localStorage = NoItems

AsksInFlight == {r \in inflight : r.kind = "ask"}
Indicators == {i \in 1 .. Len(chatBox) : chatBox[i].class = "typing-indicator"}

\* C28: from the moment an ask request is sent until its response or failure is
\* handled the chat box contains a typing indicator, also when a second
\* question is sent before the first one is answered; and once no ask request
\* is in flight no typing indicator remains in the chat box.
C28_TypingIndicatorWhileAsking ==
    active => ((AsksInFlight # {}) <=> (Indicators # {}))

\* Two questions were sent, one was answered, the other is still in flight, and
\* the chat box has no typing indicator.
C28_Witness ==
    /\ active /\ Cardinality(AsksInFlight) = 1 /\ Indicators = {}
    /\ \E r \in AsksInFlight : r.n = 3
    /\ Len(chatBox) = 3
    /\ [i \in 1 .. 3 |-> chatBox[i].role] = <<"user", "user", "assistant">>
    /\ chatBox[3].text = AnswerText(1)

BelongsTo(full_text, doc_id) ==
    \/ full_text = JsNull
    \/ \E i \in 1 .. MaxDocs : doc_id = DocId(i) /\ full_text = FullTextOf(i)

\* C30: every ask, summarize and suggest request carries a full_text that
\* belongs to the document named by its doc_id (or null): after any sequence of
\* upload, loadDocument and deleteDoc, currentDocFullText is null or the full
\* text returned by the upload of the document docId names.
C30_FullTextMatchesDocId ==
    /\ BelongsTo(currentDocFullText, docId)
    /\ \A r \in inflight :
            r.kind \in {"ask", "summarize", "suggest"} => BelongsTo(r.full_text, r.doc_id)

\* Document 1 of the sidebar was opened after document 2 was uploaded: its
\* suggest request carries document 2's text.
C30_Witness ==
    /\ docId = DocId(1) /\ currentDocFullText = FullTextOf(2)
    /\ Request("suggest", 0, DocId(1), FullTextOf(2)) \in inflight

HistoryOfOther ==
    \E j \in 1 .. MaxDocs, n \in HistoryLengths :
        /\ DocId(j) # docId
        /\ chatBox = renderHistory(ChatHistory(j, n))

\* C31: once no request is in flight, the chat box never shows the history of
\* a document other than the one identified by docId, whatever the order of
\* asks, loads, uploads, deletes and their responses was.
C31_ChatBoxBelongsToSelection == (active /\ inflight = {}) => ~HistoryOfOther

\* Document 1 is selected and shown in the JSON panel, nothing is in flight,
\* and the chat box holds the history of document 2 that an ask returned.
C31_Witness ==
    /\ active /\ inflight = {}
    /\ docId = DocId(1) /\ jsonBox = Structured(1)
    /\ chatBox = renderHistory(ChatHistory(2, 2))

\* Every loadDocument call of the current run was answered with the document.
AllLoaded == \A k \in DOMAIN loads : loads[k].state = "ok"

\* The panels show document i as loadDocument leaves them.
Shows(i) ==
    /\ docId = DocId(i)
    /\ jsonBox = Structured(i)
    /\ uploadStatus = "Loaded: " \o FileName(i)
    /\ chatBox \in {Welcome} \cup {renderHistory(ChatHistory(i, n)) : n \in HistoryLengths}

\* C32: when loadDocument(A) and then loadDocument(B) were started and both
\* responses have been handled, in whichever order, docId is B and the JSON
\* panel, the chat box and the upload status show document B.
C32_LastSelectionWins ==
    (active /\ Len(loads) = 2 /\ AllLoaded) => Shows(loads[2].doc_id.uuid)

\* loadDocument(1) then loadDocument(2) were started, both were answered, and
\* the panels show document 1.
C32_Witness ==
    /\ active /\ Len(loads) = 2 /\ AllLoaded
    /\ loads[1].doc_id = DocId(1) /\ loads[2].doc_id = DocId(2)
    /\ Shows(1)

\* ------------------------------------------------ deleteDoc and status codes

DeletedToast == "Document deleted successfully"

\* A response with status 401 is handled, whatever request it answers.
Handles401 ==
    \/ UploadResponse("401")
    \/ \E width \in Widths : LoadDocumentResponse("401", width)
    \/ DeleteDocResponse("401")
    \/ SidebarResponse("401")
    \/ SummarizeResponse("401")
    \/ SuggestResponse("401")
    \/ AskResponse("401")

\* C33: whenever a request of the dashboard is answered with status 401,
\* logout is performed and the response is not processed as a success: the
\* selection stays and no success toast appears.
C33_Logout401 ==
    [][Handles401 =>
            /\ ~active'
            /\ UNCHANGED selection
            /\ lastToast' = lastToast]_vars

\* One click was made, the delete of document 1; the server still holds the
\* document (it answered 401, or another error), the success toast is shown
\* and the page was not left.
C33_Witness ==
    /\ active /\ ops = 1
    /\ serverDocs = {1} /\ uploads = 1
    /\ lastToast = DeletedToast
    /\ inflight = {loadDocuments}

\* The delete request whose response the step handles.
AnsweredNow(r) == r \in inflight /\ r.kind = "delete" /\ r \notin inflight'

\* What deleteDoc leaves of the selection and the panels when it clears them.
ClearedNext ==
    /\ docId' = JsNull /\ currentDocFullText' = JsNull
    /\ jsonBox' = "" /\ summaryBox' = "" /\ suggestBox' = ""
    /\ evalBox' = EmptyBox /\ uploadStatus' = ""

\* C34: a cancelled confirmation sends nothing and changes nothing; an
\* answered delete of the document that docId names when the response arrives
\* leaves docId and currentDocFullText null and the JSON, summary, suggestion
\* and evaluation panels and the upload status empty; a delete of any other
\* document leaves docId, currentDocFullText and all panels as they were.
C34_DeleteChangesOnlySelected ==
    [][/\ (\E i \in 1 .. MaxDocs : DeleteDocClick(i, FALSE)) => UNCHANGED vars
       /\ (\E outcome \in Outcomes \ {"failed"} : DeleteDocResponse(outcome)) =>
            \A r \in inflight :
                AnsweredNow(r) => IF r.doc_id = docId
                                  THEN ClearedNext
                                  ELSE UNCHANGED <<selection, panels, chatBox>>]_vars

\* Document 2 was uploaded and is selected, and document 1 was deleted: the
\* panels still show document 2.
C34_Witness ==
    /\ active /\ serverDocs = {2}
    /\ lastToast = DeletedToast
    /\ docId = DocId(2) /\ jsonBox = Structured(2)
    /\ uploadStatus = "Uploaded: " \o FileName(2)

\* C35: a DELETE answered with an error status (404, 500, 401) does not
\* produce the success toast and does not reset docId.
C35_DeleteErrorStatus ==
    [][(\E outcome \in {"401", "404", "500"} : DeleteDocResponse(outcome)) =>
            /\ docId' = docId
            /\ lastToast' = DeletedToast => lastToast = DeletedToast]_vars

\* Document 1 was opened and its delete was then answered with an error: the
\* server still holds it, the selection is gone and the success toast is shown.
C35_Witness ==
    /\ active /\ ops = 2
    /\ serverDocs = {1} /\ uploads = 1
    /\ lastToast = DeletedToast
    /\ docId = JsNull /\ jsonBox = "" /\ uploadStatus = ""
    /\ ~ \E r \in inflight : r.kind \in {"load", "delete"}

\* ------------------------------------------------------------ failed uploads

UploadFails == \E outcome \in {"404", "500", "unreadable", "failed"} : UploadResponse(outcome)

\* C36: an upload that fails (a non-OK response other than 401, a response
\* that cannot be read, or a network error) leaves docId, currentDocFullText,
\* the chat box and the JSON panel as they were, hides the progress bar and
\* shows the upload button again with the file still selected; docId is set
\* by an upload response only when it is a success, and then to its doc_id.
C36_FailedUploadKeepsSelection ==
    [][/\ UploadFails =>
            /\ UNCHANGED <<selection, chatBox, jsonBox>>
            /\ uploadProgress' = "none" /\ uploadBtn' = "flex"
            /\ selectedFile' /\ selectedFile
       /\ \A outcome \in Outcomes :
            (UploadResponse(outcome) /\ docId' # docId) =>
                outcome = "ok" /\ docId' = DocId(uploads') /\ uploads' = uploads + 1]_vars

\* Document 1 is open and an upload has just failed in the catch block: the
\* document is still selected and shown, and the button is back.
C36_Witness ==
    /\ active
    /\ lastToast = ConnectMsg /\ uploadStatus = ""
    /\ docId = DocId(1) /\ jsonBox = Structured(1)
    /\ selectedFile /\ uploadBtn = "flex" /\ uploadProgress = "none"

\* ------------------------------------------------------- the summarize button

Summarizing == \E r \in inflight : r.kind = "summarize"

\* C37: the summarize button does not stay in the loading state: it has the
\* class "loading" only while a summarize request is awaited, every way out of
\* a click that sent a request removes the class, and a click with docId null
\* sends no request and does not add it.
C37_SummarizeLoadingRemoved ==
    /\ []((active /\ summarizeBtn = "loading") => Summarizing)
    /\ [][/\ (\E outcome \in Outcomes : SummarizeResponse(outcome)) => summarizeBtn' = ""
          /\ (SummarizeClick /\ ~Truthy(docId)) => UNCHANGED <<summarizeBtn, inflight>>]_vars

\* A summarize request has failed with a network error: the message is in the
\* summary panel and the button is no longer loading.
C37_Witness ==
    /\ active /\ ~Summarizing
    /\ summaryBox = ConnectMsg /\ lastToast = "Failed to generate summary"
    /\ summarizeBtn = ""

\* --------------------------------------------------------- the mobile sidebar

\* C38: after any sequence of toggleSidebar, overlay click, openUploadModal
\* and loadDocument, at window widths on either side of 768 px, sidebarOverlay
\* has the class "active" exactly when sidebar has the class "mobile-open".
C38_OverlayIffSidebarOpen == sidebar.overlayActive <=> sidebar.mobileOpen

\* The sidebar was opened on a narrow window and a document in it was clicked;
\* its response has not arrived yet.
C38_Witness ==
    /\ sidebar.mobileOpen /\ sidebar.overlayActive
    /\ \E r \in inflight : r.kind = "load"

\* ------------------------------------------------ the evaluation bar's width

\* min(5, max(0, n)) for an integer n.
Clamped(n) == IF n < 0 THEN 0 ELSE IF n > 5 THEN 5 ELSE n

\* The scores of the evaluation shown, in the order of the card's rows.
ScoresShown == <<edata.helpfulness, edata.completeness, edata.relevance>>

\* C40: for every integer score, below 0 and above 5 included, the row's
\* data-target is min(5, max(0, score)) * 20, a percentage within 0..100, and
\* it is score * 20 for the scores 1..5.
C40_BarWidthClamped ==
    eshown.kind = "card" =>
        \A k \in 1 .. 3 :
            LET score == ScoresShown[k]
                target == eshown.rows[k].target
            IN  score.t = "number" =>
                    /\ target = DecimalText(Clamped(score.v) * 20)
                    /\ target \in {DecimalText(p) : p \in 0 .. 100}
                    /\ score.v \in 1 .. 5 => target = DecimalText(score.v * 20)

\* A card whose scores are below 0, above 5 and inside the range.
C40_Witness ==
    /\ eshown.kind = "card"
    /\ ScoresShown = <<Num(-2), Num(7), Num(3)>>
    /\ [k \in 1 .. 3 |-> eshown.rows[k].target] = <<"0", "100", "60">>

\* ------------------------------------------------------ rendering a history

\* C39: after renderHistory the chat box holds exactly two messages per turn
\* and nothing else (no welcome card, no typing indicator), in the order
\* received: the i-th pair is turn i's question as a user message followed by
\* turn i's answer as an assistant message.
C39_HistoryInOrder ==
    rdone =>
        /\ Len(rbox) = 2 * Len(rhistory)
        /\ \A i \in 1 .. Len(rhistory) :
            /\ rbox[2 * i - 1] = Msg("user", rhistory[i].user)
            /\ rbox[2 * i] = Msg("assistant", rhistory[i].assistant)

\* Two turns that differ in question and answer have been rendered.
C39_Witness ==
    /\ rdone
    /\ Len(rhistory) = 2
    /\ rhistory[1].user # rhistory[2].user /\ rhistory[1].assistant # rhistory[2].assistant
    /\ Len(rbox) = 4

====
